---- MODULE Spec2Model ----
(***************************************************************************)
(* A model of the ADEdge upload server (src/src/main.rs): the lock-guarded *)
(* in-memory collections and their files, the request handlers that mutate *)
(* them, the session cookie scheme and the per-client token bucket.        *)
(*                                                                         *)
(* Strings whose characters the code inspects (usernames, e-mails, cookie  *)
(* values) are sequences of one-character strings.  Option<T> is a record: *)
(* None, or Some(v).                                                       *)
(***************************************************************************)
EXTENDS Integers, Sequences, FiniteSets, TLC

VARIABLES
    users,                       \* AppState.users: Vec<User>
    images,                      \* AppState.images: Vec<ImageMeta>
    settings,                    \* AppState.settings: registerBlocked
    rate,                        \* AppState.rate: client id -> RateBucket
    upload_token_hash,           \* AppState.upload_token_hash
    initial_upload_token_plain,  \* AppState.initial_upload_token_plain
    users_file,                  \* data/users.json
    images_file,                 \* data/images.json
    settings_file,               \* data/settings.json
    upload_dir,                  \* files of the upload directory: name -> bytes
    clock,                       \* the system clock (SystemTime::now)
    cookies,                     \* session cookie values handed to clients
    uuid_next,                   \* number of the next upload (Uuid::new_v4)
    known,                       \* uploads whose name and id a client has seen
    hs,                          \* the request handlers in flight
    sess,                        \* the cookie value under test (session scheme)
    rate_log,                    \* what the rate checks answered, per client
    get,                         \* the last retrieval: its request and response
    boot,                        \* main before the router: its position, the data files
    locks,                       \* the mutexes of AppState and where each handler stands
    sanitized,                   \* a file name header and what sanitize_filename made of it
    cfg                          \* AppState.cfg: the Config built in main

vars == <<users, images, settings, rate, upload_token_hash,
          initial_upload_token_plain, users_file, images_file, settings_file,
          upload_dir, clock, cookies, uuid_next, known, hs, sess, rate_log, get,
          boot, locks, sanitized, cfg>>

storeVars == <<users, images, settings, upload_token_hash,
               initial_upload_token_plain, users_file, images_file,
               settings_file, upload_dir, cookies, uuid_next, known, hs, get, boot,
               locks, sanitized, cfg>>

-----------------------------------------------------------------------------
(* Bounds of the model.                                                    *)

\* The clock runs over ClockMin..ClockMax ticks (7..9 print as one digit,
\* 10.. as two).
ClockMin == 7
ClockMax == 12

\* 30 days in clock ticks: the code's 2,592,000,000 ms scaled to the clock
\* range above (the comparison is the code's).
SESSION_MAX_AGE_MS == 3

-----------------------------------------------------------------------------
(* Option, and helpers on sequences.                                       *)

None == [some |-> FALSE]
Some(v) == [some |-> TRUE, val |-> v]

Min(a, b) == IF a < b THEN a ELSE b
Max(a, b) == IF a > b THEN a ELSE b

\* u64::MAX, scaled
U64_MAX == 255

\* u64 arithmetic of a build without overflow checks
wrapping_sub(a, b) == (a - b + U64_MAX + 1) % (U64_MAX + 1)
wrapping_add(a, b) == (a + b) % (U64_MAX + 1)

\* u64::saturating_sub
saturating_sub(a, b) == IF a > b THEN a - b ELSE 0

RECURSIVE BitXor(_, _)
\* a ^ b on usize
BitXor(a, b) ==
    IF a = 0 /\ b = 0 THEN 0
    ELSE (((a % 2) + (b % 2)) % 2) + 2 * BitXor(a \div 2, b \div 2)

RECURSIVE BitOr(_, _)
\* a | b on usize
BitOr(a, b) ==
    IF a = 0 /\ b = 0 THEN 0
    ELSE (IF (a % 2) = 1 \/ (b % 2) = 1 THEN 1 ELSE 0) + 2 * BitOr(a \div 2, b \div 2)

\* (x ^ y) as usize for two bytes: zero exactly when the bytes are equal.
\* Characters are symbols here, so a non-zero difference is modelled as 1.
ByteXor(x, y) == IF x = y THEN 0 ELSE 1

RECURSIVE split(_, _)
\* str::split(sep).collect(): the parts between the separators (always at
\* least one part, possibly empty).
split(s, sep) ==
    IF \A i \in 1..Len(s) : s[i] # sep THEN <<s>>
    ELSE LET i == CHOOSE k \in 1..Len(s) :
                      s[k] = sep /\ \A j \in 1..(k - 1) : s[j] # sep
         IN <<SubSeq(s, 1, i - 1)>> \o split(SubSeq(s, i + 1, Len(s)), sep)

RECURSIVE join(_, _)
\* [&str]::join(sep)
join(parts, sep) ==
    IF Len(parts) = 0 THEN <<>>
    ELSE IF Len(parts) = 1 THEN parts[1]
    ELSE parts[1] \o <<sep>> \o join(Tail(parts), sep)

\* Vec::pop leaves the vector without its last element.
pop(v) == SubSeq(v, 1, Len(v) - 1)
last(v) == v[Len(v)]

Digit == <<"0", "1", "2", "3", "4", "5", "6", "7", "8", "9">>
IsDigit(c) == \E d \in 1..10 : Digit[d] = c
DigitVal(c) == (CHOOSE d \in 1..10 : Digit[d] = c) - 1

RECURSIVE to_string(_)
\* format!("{}", n) for an unsigned integer: its decimal digits.
to_string(n) ==
    IF n < 10 THEN <<Digit[n + 1]>>
    ELSE to_string(n \div 10) \o <<Digit[(n % 10) + 1]>>

RECURSIVE DigitsValue(_)
DigitsValue(s) ==
    IF Len(s) = 0 THEN 0
    ELSE 10 * DigitsValue(pop(s)) + DigitVal(last(s))

\* str::parse::<u64>(): an optional leading '+', then one or more decimal
\* digits; anything else, and a value above u64::MAX, is an error (None).
parse_u64(s) ==
    LET body == IF Len(s) > 0 /\ s[1] = "+" THEN Tail(s) ELSE s
    IN IF /\ Len(body) > 0 /\ Len(body) <= 4
          /\ \A i \in 1..Len(body) : IsDigit(body[i])
          /\ DigitsValue(body) <= U64_MAX
       THEN Some(DigitsValue(body))
       ELSE None

-----------------------------------------------------------------------------
(* Session cookies: sign_session, verify_session, timing_equal.            *)

\* hex::encode of a digest never holds the separator '.': every character
\* of the digest is a symbol of its own alphabet.
HexChar(c) == "#" \o c

\* hmac_sign: HMAC-SHA256 rendered as hexadecimal.  The keyed hash is
\* modelled as collision free: the digest determines key and payload.
hmac_sign(secret, payload) ==
    LET m == secret \o <<"|">> \o payload
    IN [i \in 1..Len(m) |-> HexChar(m[i])]

RECURSIVE timing_diff(_, _, _, _)
\* the loop of timing_equal: diff |= ab[i] ^ bb[i] for i in 0..len
timing_diff(ab, bb, i, diff) ==
    IF i > Min(Len(ab), Len(bb)) THEN diff
    ELSE timing_diff(ab, bb, i + 1, BitOr(diff, ByteXor(ab[i], bb[i])))

timing_equal_prefix_only(a, b) == timing_diff(a, b, 1, 0) = 0

timing_equal(a, b) == timing_diff(a, b, 1, BitXor(Len(a), Len(b))) = 0

sign_session(secret, username, ts) ==
    LET payload == username \o <<".">> \o to_string(ts)
        mac == hmac_sign(secret, payload)
    IN payload \o <<".">> \o mac

\* the age test of verify_session
session_expired_ge(age) == age >= SESSION_MAX_AGE_MS

session_expired(age) == age > SESSION_MAX_AGE_MS

\* verify_session splitting from the left: the first part is the username
verify_session_left(secret, cookie_val, now) ==
    LET parts == split(cookie_val, ".")
    IN IF Len(parts) < 3 THEN None
       ELSE LET mac == parts[3]
                ts == parts[2]
                username == parts[1]
                expected == hmac_sign(secret, username \o <<".">> \o ts)
            IN IF ~timing_equal(expected, mac) THEN None
               ELSE LET ts_num == parse_u64(ts)
                    IN IF ~ts_num.some THEN None
                       ELSE IF session_expired(saturating_sub(now, ts_num.val))
                            THEN None
                            ELSE Some(username)

verify_session(secret, cookie_val, now) ==
    LET parts == split(cookie_val, ".")
    IN IF Len(parts) < 3 THEN None
       ELSE LET mac == last(parts)
                ts == last(pop(parts))
                username == join(pop(pop(parts)), ".")
                expected == hmac_sign(secret, username \o <<".">> \o ts)
            IN IF ~timing_equal(expected, mac) THEN None
               ELSE LET ts_num == parse_u64(ts)
                    IN IF ~ts_num.some THEN None
                       ELSE IF session_expired(saturating_sub(now, ts_num.val))
                            THEN None
                            ELSE Some(username)

\* AppState.session_secret (SESSION_SECRET of .env), and a key the server
\* does not use.
session_secret == <<"k", "1">>
other_secret == <<"k", "2">>

-----------------------------------------------------------------------------
(* The persistent types and the state after start-up.                      *)

\* bcrypt::hash / bcrypt::verify: the hash determines the password (the salt
\* is left out); verifying against a string that is no hash is an error,
\* which every caller turns into false.
bcrypt_hash(plain) == <<"bcrypt", plain>>
bcrypt_verify(plain, hash) == hash = bcrypt_hash(plain)

\* struct User (created_at and preferences are never read by the handlers
\* modelled here and are left out).
User(username, password_hash, email, role) ==
    [username |-> username, password_hash |-> password_hash, email |-> email,
     role |-> role, images |-> <<>>]

\* struct ImageMeta (originalname, size, url and uploaded_at are carried
\* through unchanged and never compared; size is kept).
ImageMeta(id, filename, size, owner) ==
    [id |-> id, filename |-> filename, size |-> size, owner |-> owner]

ADMIN == <<"a", "d", "m", "i", "n">>
ADMIN_EMAIL == <<"a", "d", "m", "i", "n", "@", "e", "x", "a", "m", "p", "l",
                 "e", ".", "c", "o", "m">>
\* the first-run admin password (rand_hex(8)) and upload token (rand_hex(24))
ADMIN_PASSWORD == "0f1e2d3c4b5a6978"
FIRST_UPLOAD_TOKEN == "a1b2c3d4e5f6a7b8c9d0e1f2a3b4c5d6e7f8a9b0c1d2e3f4"

\* the requests in flight: the worker pool runs this many handlers at once
Handlers == {"h1", "h2"}

\* A handler: which request it serves (op), where it stands (pc), and its
\* locals.  actor: the username check_auth returned; name/email/pass: the
\* request's fields; target: the id or filename a delete names; file, id:
\* the number of the upload (its stored name and its id are both fresh
\* UUIDs); size: the running byte count; left: bytes the client has yet
\* to send; owner: the resolved owner; snap: the snapshot cloned under the
\* lock and not yet written; resp: the status answered; cause: why an
\* upload ended; current, token: body.currentPassword and
\* body.newUploadToken of a settings request; before: the caller's
\* password hash and the upload token as they were when a settings request
\* arrived (kept for the comparison only, the handler never reads it).
Idle ==
    [op |-> "idle", pc |-> "idle", actor |-> <<>>, name |-> <<>>,
     email |-> <<>>, pass |-> "", target |-> 0, file |-> 0, id |-> 0,
     size |-> 0, left |-> 0, owner |-> None, snap |-> <<>>,
     resp |-> "", cause |-> "",
     current |-> None, token |-> None,
     before |-> [password_hash |-> <<>>, upload_token_hash |-> <<>>,
                 initial_upload_token_plain |-> None]]

\* no cookie value under test
NoSess ==
    [phase |-> "none", username |-> <<>>, ts |-> 0, token |-> <<>>,
     tamper |-> "none", at |-> 0, result |-> None]

EmptyMap == [x \in {} |-> 0]

\* a response of the object server; a header that is not sent is empty
\* (content_length -1), read is the resolved path of the file that was opened
NoResponse ==
    [status |-> "", content_range |-> <<>>, content_length |-> -1,
     accept_ranges |-> "", cache_control |-> "", body |-> <<>>, read |-> <<>>]
NoGet == [method |-> "", segment |-> <<>>, range |-> None, resp |-> NoResponse]

\* the Mutex fields of AppState
LockNames ==
    {"users", "images", "settings", "rate", "upload_token_hash",
     "initial_upload_token_plain"}

\* no mutex is held and no handler is under way
AllFree ==
    [holder |-> [l \in LockNames |-> "free"],
     run |-> [h \in Handlers |-> [op |-> "idle", pos |-> 0, waiting |-> FALSE]]]

\* SettingsJson::default()
DefaultSettings == [registerBlocked |-> FALSE]

\* a data file as main finds it: missing, or holding bytes that are not
\* JSON, JSON of another shape, or JSON of the expected shape (val)
DiskFile(kind, val) == [kind |-> kind, val |-> val]

\* main has built the router: what it went through is of no more interest
Serving ==
    [pc |-> "serving", users_file |-> DiskFile("json", <<>>),
     images_file |-> DiskFile("json", <<>>),
     settings_file |-> DiskFile("json", DefaultSettings),
     admin_env |-> None, first_admin_plain |-> None,
     at_start |-> [users |-> "json", images |-> "json", settings |-> "json"]]

\* Token counts are fixed-point numbers: one token is TokenScale units (the
\* rounding of f32 is not modelled).  One clock tick is one second.
TokenScale == 2

\* The size cap in bytes (MAX_UPLOAD_BYTES, 10 MiB by default, scaled), the
\* bucket capacity (RATE_LIMIT_TOKENS) and the refill per second
\* (RATE_LIMIT_REFILL), both in token units.
MaxUploadBytes == 3
DefaultCfg ==
    [max_upload_bytes |-> MaxUploadBytes, rate_tokens |-> 2 * TokenScale,
     rate_refill |-> TokenScale]

\* Everything but the configuration: ensure_env (first run),
\* ensure_data_and_admin (no users.json yet), load_all and the AppState
\* built in main.
InitState ==
    /\ users = <<User(ADMIN, bcrypt_hash(ADMIN_PASSWORD), ADMIN_EMAIL, "admin")>>
    /\ images = <<>>
    /\ settings = [registerBlocked |-> FALSE]
    /\ rate = EmptyMap
    /\ upload_token_hash = bcrypt_hash(FIRST_UPLOAD_TOKEN)
    /\ initial_upload_token_plain = Some(FIRST_UPLOAD_TOKEN)
    /\ users_file = users
    /\ images_file = images
    /\ settings_file = settings
    /\ upload_dir = EmptyMap
    /\ clock = ClockMin
    /\ cookies = {}
    /\ uuid_next = 1
    /\ known = {}
    /\ get = NoGet
    /\ boot = Serving
    /\ locks = AllFree
    /\ hs = [h \in Handlers |-> Idle]
    /\ sess = NoSess
    /\ rate_log = EmptyMap

\* no file name was looked at
NoName == [filename_header |-> <<>>, safe |-> <<>>, again |-> <<>>, calls |-> 0]

Init == InitState /\ cfg = DefaultCfg /\ sanitized = NoName

-----------------------------------------------------------------------------
(* The session scheme on its own: a cookie value is issued, possibly       *)
(* altered by its holder, and verified at some later (or earlier) clock    *)
(* reading.                                                                *)

\* usernames public_register accepts may hold '.', digits and letters
SessionUsernames ==
    { <<"a">>, <<"a", ".", "b">>, <<".">>, <<"a", ".">>, <<"1", ".", "2">> }

\* characters a holder may write into a cookie value
TamperChars == {"a", ".", "1", "+", "#a", "#."}

\* api_login, after the password check: sign_session(secret, username, now_ms())
SessIssue(u) ==
    /\ sess.phase = "none"
    /\ sess' = [NoSess EXCEPT !.phase = "issued", !.username = u, !.ts = clock,
                              !.token = sign_session(session_secret, u, clock)]
    /\ UNCHANGED <<storeVars, clock, rate, rate_log>>

\* a cookie value signed with a key that is not the server's
SessForge(u) ==
    /\ sess.phase = "none"
    /\ sess' = [NoSess EXCEPT !.phase = "issued", !.username = u, !.ts = clock,
                              !.token = sign_session(other_secret, u, clock),
                              !.tamper = "forged"]
    /\ UNCHANGED <<storeVars, clock, rate, rate_log>>

\* SystemTime::now is not monotonic: any reading may follow any other
SessSetClock(t) ==
    /\ t # clock
    /\ clock' = t
    /\ UNCHANGED <<storeVars, sess, rate, rate_log>>

\* one character of the cookie value replaced by another
SessSubstitute(i, c) ==
    /\ sess.phase = "issued" /\ sess.tamper = "none"
    /\ i \in 1..Len(sess.token) /\ sess.token[i] # c
    /\ sess' = [sess EXCEPT !.token = [sess.token EXCEPT ![i] = c],
                            !.tamper = "substituted"]
    /\ UNCHANGED <<storeVars, clock, rate, rate_log>>

\* the MAC cut to a proper prefix (k characters dropped from the end)
SessTruncate(k) ==
    /\ sess.phase = "issued" /\ sess.tamper = "none"
    /\ sess' = [sess EXCEPT !.token = SubSeq(sess.token, 1, Len(sess.token) - k),
                            !.tamper = "truncated"]
    /\ UNCHANGED <<storeVars, clock, rate, rate_log>>

\* the MAC extended by one character
SessExtend(c) ==
    /\ sess.phase = "issued" /\ sess.tamper = "none"
    /\ sess' = [sess EXCEPT !.token = Append(sess.token, c),
                            !.tamper = "extended"]
    /\ UNCHANGED <<storeVars, clock, rate, rate_log>>

\* the first '.'-separated part removed
SessDropPart ==
    /\ sess.phase = "issued" /\ sess.tamper = "none"
    /\ sess' = [sess EXCEPT !.token = join(Tail(split(sess.token, ".")), "."),
                            !.tamper = "part dropped"]
    /\ UNCHANGED <<storeVars, clock, rate, rate_log>>

\* check_auth: verify_session(state.session_secret, cookie value)
SessVerify ==
    /\ sess.phase = "issued"
    /\ sess' = [sess EXCEPT !.phase = "verified", !.at = clock,
                            !.result = verify_session(session_secret, sess.token, clock)]
    /\ UNCHANGED <<storeVars, clock, rate, rate_log>>

SessReset ==
    /\ sess.phase = "verified"
    /\ sess' = NoSess
    /\ UNCHANGED <<storeVars, clock, rate, rate_log>>

NextSession ==
    \/ \E u \in SessionUsernames : SessIssue(u)
    \/ \E u \in SessionUsernames : SessForge(u)
    \/ \E t \in ClockMin..ClockMax : SessSetClock(t)
    \/ \E i \in 1..20, c \in TamperChars : SessSubstitute(i, c)
    \/ \E k \in 1..2 : SessTruncate(k)
    \/ \E c \in TamperChars : SessExtend(c)
    \/ SessDropPart
    \/ SessVerify
    \/ SessReset

SpecSession == Init /\ [][NextSession]_vars

-----------------------------------------------------------------------------
(* Claims about the session scheme (checked under SpecSession).            *)

\* The cookie value carries, after its last '.', exactly the keyed hash of
\* everything before that '.', and what precedes holds a '.' of its own
\* (username '.' timestamp).
WellSigned(tok) ==
    \E j \in 1..Len(tok) :
        /\ tok[j] = "."
        /\ \A m \in (j + 1)..Len(tok) : tok[m] # "."
        /\ \E i \in 1..(j - 1) : tok[i] = "."
        /\ SubSeq(tok, j + 1, Len(tok)) = hmac_sign(session_secret, SubSeq(tok, 1, j - 1))

\* C7: a cookie value verified at the clock reading it was issued at, and
\* not altered, verifies as exactly the username it was issued for, also
\* when that username holds the separator '.'.
C7_VerifyIssuedReturnsUser ==
    (sess.phase = "verified" /\ sess.tamper = "none" /\ sess.at = sess.ts)
        => sess.result = Some(sess.username)

C7_Witness ==
    /\ sess.phase = "verified" /\ sess.tamper = "none" /\ sess.at = sess.ts
    /\ \E i \in 1..Len(sess.username) : sess.username[i] = "."
    /\ sess.result = Some(sess.username)

\* C8: a cookie value whose MAC field is not the keyed hash of its own
\* payload under the server secret (any character changed, the MAC cut or
\* extended, a part missing, another key) verifies as None.
C8_BadMacRejected ==
    (sess.phase = "verified" /\ ~WellSigned(sess.token)) => sess.result = None

C8_Witness ==
    /\ sess.phase = "verified" /\ sess.tamper = "truncated"
    /\ Len(split(sess.token, ".")) >= 3
    /\ ~WellSigned(sess.token)
    /\ sess.result = None

\* C9: an unaltered cookie value is rejected exactly when the clock reading
\* at verification is more than SESSION_MAX_AGE_MS past its timestamp; a
\* timestamp later than the clock reading is accepted (age 0).
C9_RejectedIffTooOld ==
    (sess.phase = "verified" /\ sess.tamper = "none")
        => /\ (sess.result = None) <=> (sess.at - sess.ts > SESSION_MAX_AGE_MS)
           /\ sess.result # None => sess.result = Some(sess.username)

C9_Witness ==
    /\ sess.phase = "verified" /\ sess.tamper = "none"
    /\ sess.at - sess.ts = SESSION_MAX_AGE_MS
    /\ sess.result = Some(sess.username)

-----------------------------------------------------------------------------
(* The rate limiter: allow_rate.                                           *)

\* a first check that creates the bucket with no tokens in it
rate_bucket_created_empty(map, ip, now) ==
    IF ip \in DOMAIN map THEN map[ip]
    ELSE [tokens |-> 0, last |-> now]

\* or_insert_with: a client's first check creates its bucket full
rate_bucket(map, ip, now) ==
    IF ip \in DOMAIN map THEN map[ip]
    ELSE [tokens |-> cfg.rate_tokens, last |-> now]

\* the bucket arithmetic without the tokens the bucket already holds
rate_refilled_from_empty(b, now) ==
    Min(Max(now - b.last, 0) * cfg.rate_refill, cfg.rate_tokens)

\* a refill that takes the difference of the clock readings as it is
rate_refilled_signed(b, now) ==
    Min(b.tokens + (now - b.last) * cfg.rate_refill, cfg.rate_tokens)

\* elapsed = (now - b.last).max(0.0);
\* b.tokens = (b.tokens + elapsed * rate_refill).min(rate_tokens)
rate_refilled(b, now) ==
    Min(b.tokens + Max(now - b.last, 0) * cfg.rate_refill, cfg.rate_tokens)

rate_has_token_gt(tokens) == tokens > TokenScale

\* b.tokens >= 1.0
rate_has_token(tokens) == tokens >= TokenScale

\* the answer of allow_rate(state, ip) at clock reading now
allow_rate(map, ip, now) ==
    rate_has_token(rate_refilled(rate_bucket(map, ip, now), now))

\* the map allow_rate(state, ip) leaves behind
rate_after(map, ip, now) ==
    LET t == rate_refilled(rate_bucket(map, ip, now), now)
        b == [tokens |-> IF rate_has_token(t) THEN t - TokenScale ELSE t,
              last |-> now]
    IN [k \in DOMAIN map \cup {ip} |-> IF k = ip THEN b ELSE map[k]]

\* per client: the number of checks, how many were allowed, and whether
\* every check so far found the clock where the bucket's last check left it;
\* then, from the check that used up a whole-numbered capacity with no time
\* elapsed ("spent", at clock reading since): the denied checks made after
\* it and whether the clock never went backwards, until the first allowed
\* check ("recovered")
rate_logged(log, map, ip, now) ==
    LET old == IF ip \in DOMAIN log THEN log[ip]
               ELSE [n |-> 0, allowed |-> 0, still |-> TRUE, phase |-> "fresh",
                     since |-> 0, denials |-> 0, mono |-> TRUE]
        ok == allow_rate(map, ip, now)
        still == old.still /\ now = rate_bucket(map, ip, now).last
        spends == still /\ (old.n + 1) * TokenScale = cfg.rate_tokens
        new == [n |-> old.n + 1,
                allowed |-> old.allowed + (IF ok THEN 1 ELSE 0),
                still |-> still,
                phase |-> IF old.phase = "spent"
                          THEN (IF ok THEN "recovered" ELSE "spent")
                          ELSE IF spends THEN "spent" ELSE old.phase,
                since |-> IF old.phase = "fresh" /\ spends THEN now ELSE old.since,
                denials |-> IF old.phase = "spent" /\ ~ok THEN old.denials + 1
                            ELSE old.denials,
                mono |-> IF old.phase = "spent"
                         THEN old.mono /\ now >= rate_bucket(map, ip, now).last
                         ELSE old.mono]
    IN [k \in DOMAIN log \cup {ip} |-> IF k = ip THEN new ELSE log[k]]

\* client identifiers: the constant fallback and one forwarded address
RateClients == {"unknown", "10.0.0.1"}

\* checks made per client
MaxChecks == 4

\* capacities of 0.5, 2 and 2.5 tokens; refill of 0.5 and 1 token per second
RateConfigs ==
    { [DefaultCfg EXCEPT !.rate_tokens = c, !.rate_refill = r] :
        c \in {TokenScale \div 2, 2 * TokenScale, 2 * TokenScale + TokenScale \div 2},
        r \in {TokenScale \div 2, TokenScale} }

InitRate == InitState /\ cfg \in RateConfigs /\ sanitized = NoName

\* one call of allow_rate(state, ip)
RateCheck(ip) ==
    /\ ip \in DOMAIN rate_log => rate_log[ip].n < MaxChecks
    /\ rate' = rate_after(rate, ip, clock)
    /\ rate_log' = rate_logged(rate_log, rate, ip, clock)
    /\ UNCHANGED <<storeVars, clock, sess>>

\* SystemTime::now is not monotonic: any reading may follow any other
RateSetClock(t) ==
    /\ t # clock
    /\ clock' = t
    /\ UNCHANGED <<storeVars, sess, rate, rate_log>>

\* HeaderValue::to_str: Ok only when every byte is visible ASCII
to_str(v) == IF v.visible THEN Some(v.val) ELSE None

\* what a request can carry as x-real-ip and as x-forwarded-for: nothing,
\* an address, an address with a byte outside visible ASCII
ForwardedValues ==
    {None, Some([visible |-> TRUE, val |-> "10.0.0.1"]),
     Some([visible |-> FALSE, val |-> "10.0.0.1"])}

\* headers.get("x-real-ip").or_else(|| headers.get("x-forwarded-for"))
\*     .and_then(|v| v.to_str().ok()).unwrap_or("unknown")
client_ip(x_real_ip, x_forwarded_for) ==
    LET v == IF x_real_ip.some THEN x_real_ip ELSE x_forwarded_for
        text == IF v.some THEN to_str(v.val) ELSE None
    IN IF text.some THEN text.val ELSE "unknown"

\* the rate check of upload_handler for a request with these two headers
UploadRateCheck(x_real_ip, x_forwarded_for) ==
    RateCheck(client_ip(x_real_ip, x_forwarded_for))

NextRate ==
    \/ \E a, b \in ForwardedValues : UploadRateCheck(a, b)
    \/ \E t \in ClockMin..ClockMax : RateSetClock(t)

SpecRate == InitRate /\ [][NextRate]_vars

\* C10: a bucket created at capacity C and checked N times with no time
\* elapsed, N <= C, allowed all N checks and holds exactly C - N tokens.
C10_TokensAfterNChecks ==
    \A ip \in DOMAIN rate_log :
        (rate_log[ip].still /\ rate_log[ip].n * TokenScale <= cfg.rate_tokens)
            => /\ rate_log[ip].allowed = rate_log[ip].n
               /\ rate[ip].tokens = cfg.rate_tokens - rate_log[ip].n * TokenScale

C10_Witness ==
    \E ip \in DOMAIN rate_log :
        /\ rate_log[ip].still /\ rate_log[ip].n = 2
        /\ rate_log[ip].n * TokenScale < cfg.rate_tokens
        /\ rate_log[ip].allowed = 2
        /\ rate[ip].tokens = cfg.rate_tokens - 2 * TokenScale

\* C11: once a client has used up a full bucket of C tokens with no time
\* elapsed, a further check (none having been allowed since, the clock not
\* having gone backwards) is allowed exactly when at least 1/R has elapsed
\* since the bucket was used up, however many denied checks lie in between.
C11_DeniedUntilRefilled ==
    [][\A ip \in RateClients :
          (/\ RateCheck(ip)
           /\ ip \in DOMAIN rate_log
           /\ rate_log[ip].phase = "spent" /\ rate_log[ip].mono
           /\ clock >= rate[ip].last)
          => (rate_log'[ip].allowed = rate_log[ip].allowed + 1
                <=> (clock - rate_log[ip].since) * cfg.rate_refill >= TokenScale)]_vars

\* a client was allowed again after a denied check that fell short of 1/R,
\* with a refill rate of half a token per clock unit
C11_Witness ==
    \E ip \in DOMAIN rate_log :
        /\ rate_log[ip].phase = "recovered" /\ rate_log[ip].mono
        /\ rate_log[ip].denials >= 1
        /\ 2 * cfg.rate_refill = TokenScale
        /\ clock - rate_log[ip].since = 2

-----------------------------------------------------------------------------
(* Strings: the character tests and conversions the handlers use.          *)

UpperLetters ==
    <<"A", "B", "C", "D", "E", "F", "G", "H", "I", "J", "K", "L", "M",
      "N", "O", "P", "Q", "R", "S", "T", "U", "V", "W", "X", "Y", "Z">>
LowerLetters ==
    <<"a", "b", "c", "d", "e", "f", "g", "h", "i", "j", "k", "l", "m",
      "n", "o", "p", "q", "r", "s", "t", "u", "v", "w", "x", "y", "z">>

\* two characters outside ASCII, written by their code points: the letter
\* E with acute accent in upper and in lower case
E_ACUTE_UPPER == "U+00C9"
E_ACUTE_LOWER == "U+00E9"

is_ascii_uppercase(c) == \E i \in 1..26 : UpperLetters[i] = c
is_ascii_lowercase(c) == \E i \in 1..26 : LowerLetters[i] = c

\* char::is_ascii_alphanumeric
is_ascii_alphanumeric(c) ==
    is_ascii_uppercase(c) \/ is_ascii_lowercase(c) \/ IsDigit(c)

\* a sanitizer that tests with char::is_alphanumeric, which letters outside
\* ASCII pass as well
sanitize_filename_alphanumeric(s) ==
    LET safe == [i \in 1..Len(s) |->
                    IF is_ascii_alphanumeric(s[i]) \/ s[i] \in {E_ACUTE_LOWER, E_ACUTE_UPPER}
                       \/ s[i] = "." \/ s[i] = "-" \/ s[i] = "_"
                    THEN s[i] ELSE "_"]
    IN IF Len(safe) = 0 THEN <<"f", "i", "l", "e">> ELSE safe

\* sanitize_filename: character by character, "file" for an empty result
sanitize_filename(s) ==
    LET safe == [i \in 1..Len(s) |->
                    IF is_ascii_alphanumeric(s[i]) \/ s[i] = "." \/ s[i] = "-" \/ s[i] = "_"
                    THEN s[i] ELSE "_"]
    IN IF Len(safe) = 0 THEN <<"f", "i", "l", "e">> ELSE safe

\* u8::to_ascii_lowercase: only 'A'..'Z' change
to_ascii_lowercase(c) ==
    IF is_ascii_uppercase(c)
    THEN LowerLetters[CHOOSE i \in 1..26 : UpperLetters[i] = c]
    ELSE c

\* char::to_lowercase: the Unicode lower case
to_lowercase_char(c) ==
    IF c = E_ACUTE_UPPER THEN E_ACUTE_LOWER ELSE to_ascii_lowercase(c)

\* str::to_lowercase
to_lowercase(s) == [i \in 1..Len(s) |-> to_lowercase_char(s[i])]

\* str::eq_ignore_ascii_case
eq_ignore_ascii_case(a, b) ==
    /\ Len(a) = Len(b)
    /\ \A i \in 1..Len(a) : to_ascii_lowercase(a[i]) = to_ascii_lowercase(b[i])

RECURSIVE trim(_)
\* str::trim: white space removed at both ends
trim(s) ==
    IF Len(s) > 0 /\ s[1] = " " THEN trim(Tail(s))
    ELSE IF Len(s) > 0 /\ s[Len(s)] = " " THEN trim(pop(s))
    ELSE s

\* str::contains(char)
contains(s, c) == \E i \in 1..Len(s) : s[i] = c

MinOf(S) == CHOOSE x \in S : \A y \in S : x <= y

\* find_user / find_user_mut: the index of the first account of that
\* username, 0 when there is none
find_user(us, uname) ==
    LET hits == {i \in 1..Len(us) : us[i].username = uname}
    IN IF hits = {} THEN 0 ELSE MinOf(hits)

\* find_user_by_email(..).map(|u| u.username.clone())
find_user_by_email(us, email) ==
    LET lower == to_lowercase(trim(email))
        hits == {i \in 1..Len(us) : to_lowercase(us[i].email) = lower}
    IN IF Len(lower) = 0 \/ hits = {} THEN None
       ELSE Some(us[MinOf(hits)].username)

\* the username test of public_register
valid_register_username(uname) ==
    /\ Len(uname) >= 3 /\ Len(uname) <= 32
    /\ \A i \in 1..Len(uname) :
           is_ascii_alphanumeric(uname[i]) \/ uname[i] \in {".", "_", "-"}

-----------------------------------------------------------------------------
(* Request handlers.  A step is one lock section or one I/O operation; the *)
(* local computation before it belongs to the step.  A handler that has    *)
(* answered stands at "done" with its status until HandlerReturn frees its *)
(* slot, which happens before any other step.                              *)

\* check_auth: the username the request's session cookie verifies as
\* a check that also wants the account of the session to be in the store
check_auth_known_account(cookie) ==
    LET who == verify_session(session_secret, cookie, clock)
    IN IF who.some /\ \A i \in 1..Len(users) : users[i].username # who.val
       THEN None ELSE who

check_auth(cookie) == verify_session(session_secret, cookie, clock)

\* what a request may carry as its session cookie: a value some login
\* handed out, or none
CookieChoices == cookies \cup {<<>>}

NoneDone == \A h \in Handlers : hs[h].pc # "done"

Request(op) == [Idle EXCEPT !.op = op]
\* the handler has answered: what it held locally is dropped
Done(r, status) ==
    [Idle EXCEPT !.op = r.op, !.pc = "done", !.actor = r.actor, !.target = r.target,
                 !.file = r.file, !.id = r.id, !.cause = r.cause, !.resp = status]

otherVars == <<sess, rate_log, get, boot, locks, sanitized, cfg, clock>>

\* the response has been written: the slot is free again
HandlerReturn(h) ==
    /\ hs[h].pc = "done"
    /\ hs' = [hs EXCEPT ![h] = Idle]
    /\ UNCHANGED <<users, images, settings, rate, upload_token_hash,
                   initial_upload_token_plain, users_file, images_file,
                   settings_file, upload_dir, cookies, uuid_next, known, otherVars>>

\* api_login: a session cookie is handed out when the account exists and
\* the password verifies (every other outcome changes nothing)
Login(username, password) ==
    /\ NoneDone
    /\ Len(username) > 0 /\ Len(password) > 0
    /\ find_user(users, username) # 0
    /\ bcrypt_verify(password, users[find_user(users, username)].password_hash)
    /\ sign_session(session_secret, username, clock) \notin cookies
    /\ cookies' = cookies \cup {sign_session(session_secret, username, clock)}
    /\ UNCHANGED <<users, images, settings, rate, upload_token_hash,
                   initial_upload_token_plain, users_file, images_file,
                   settings_file, upload_dir, uuid_next, known, hs, otherVars>>

\* public_register up to the users lock: the registration lock is read,
\* then the fields are trimmed and validated
RegisterStart(h, username, email, password) ==
    /\ NoneDone /\ hs[h].pc = "idle"
    /\ LET uname == trim(username)
           mail == trim(email)
           r == [Request("public_register") EXCEPT !.name = uname, !.email = mail,
                                                   !.pass = password]
       IN hs' = [hs EXCEPT ![h] =
                    IF settings.registerBlocked THEN Done(r, "403")
                    ELSE IF ~valid_register_username(uname) THEN Done(r, "400")
                    ELSE IF ~contains(mail, "@") \/ ~contains(mail, ".") THEN Done(r, "400")
                    ELSE IF Len(password) < 6 THEN Done(r, "400")
                    ELSE [r EXCEPT !.pc = "reg_users"]]
    /\ UNCHANGED <<users, images, settings, rate, upload_token_hash,
                   initial_upload_token_plain, users_file, images_file,
                   settings_file, upload_dir, cookies, uuid_next, known, otherVars>>

\* the e-mail comparison of public_register, admin_users_create and
\* api_update_email
email_taken(stored, email) == eq_ignore_ascii_case(stored, email)

\* public_register under the users lock: the two existence checks, the
\* push, the snapshot
RegisterUsers(h) ==
    /\ NoneDone /\ hs[h].op = "public_register" /\ hs[h].pc = "reg_users"
    /\ LET r == hs[h]
           exists_u == \E i \in 1..Len(users) : users[i].username = r.name
           exists_e == \E i \in 1..Len(users) : email_taken(users[i].email, r.email)
           pushed == Append(users, User(r.name, bcrypt_hash(r.pass), r.email, "user"))
       IN IF exists_u \/ exists_e
          THEN /\ hs' = [hs EXCEPT ![h] = Done(r, "409")]
               /\ UNCHANGED users
          ELSE /\ users' = pushed
               /\ hs' = [hs EXCEPT ![h] = [r EXCEPT !.pc = "save_users", !.snap = pushed]]
    /\ UNCHANGED <<images, settings, rate, upload_token_hash,
                   initial_upload_token_plain, users_file, images_file,
                   settings_file, upload_dir, cookies, uuid_next, known, otherVars>>

\* admin_users_create up to and including the users lock
AdminCreate(h, cookie, newUsername, email, password) ==
    /\ NoneDone /\ hs[h].pc = "idle"
    /\ LET who == check_auth(cookie)
           r == [Request("admin_users_create") EXCEPT
                    !.actor = IF who.some THEN who.val ELSE <<>>,
                    !.name = newUsername, !.email = email, !.pass = password]
           exists_u == \E i \in 1..Len(users) : users[i].username = newUsername
           exists_e == \E i \in 1..Len(users) : email_taken(users[i].email, email)
           pushed == Append(users, User(newUsername, bcrypt_hash(password), email, "user"))
           early == IF ~who.some THEN "401"
                    ELSE IF who.val # ADMIN THEN "403"
                    ELSE IF Len(trim(newUsername)) < 3 \/ Len(newUsername) > 32 THEN "400"
                    ELSE IF ~contains(email, "@") THEN "400"
                    ELSE IF Len(password) < 6 THEN "400"
                    ELSE IF exists_u \/ exists_e THEN "409"
                    ELSE ""
       IN IF early # ""
          THEN /\ hs' = [hs EXCEPT ![h] = Done(r, early)]
               /\ UNCHANGED users
          ELSE /\ users' = pushed
               /\ hs' = [hs EXCEPT ![h] = [r EXCEPT !.pc = "save_users", !.snap = pushed]]
    /\ UNCHANGED <<images, settings, rate, upload_token_hash,
                   initial_upload_token_plain, users_file, images_file,
                   settings_file, upload_dir, cookies, uuid_next, known, otherVars>>

\* api_update_email up to and including the users lock
UpdateEmail(h, cookie, email) ==
    /\ NoneDone /\ hs[h].pc = "idle"
    /\ LET who == check_auth(cookie)
           new_email == trim(email)
           r == [Request("api_update_email") EXCEPT
                    !.actor = IF who.some THEN who.val ELSE <<>>, !.email = new_email]
           conflict == \E i \in 1..Len(users) :
                           /\ users[i].username # r.actor
                           /\ email_taken(users[i].email, new_email)
           k == find_user(users, r.actor)
           updated == IF k = 0 THEN users ELSE [users EXCEPT ![k].email = new_email]
           early == IF ~who.some THEN "401"
                    ELSE IF Len(new_email) = 0 THEN "400"
                    ELSE IF ~contains(new_email, "@") \/ ~contains(new_email, ".") THEN "400"
                    ELSE IF conflict THEN "409"
                    ELSE ""
       IN IF early # ""
          THEN /\ hs' = [hs EXCEPT ![h] = Done(r, early)]
               /\ UNCHANGED users
          ELSE /\ users' = updated
               /\ hs' = [hs EXCEPT ![h] = [r EXCEPT !.pc = "save_users", !.snap = updated]]
    /\ UNCHANGED <<images, settings, rate, upload_token_hash,
                   initial_upload_token_plain, users_file, images_file,
                   settings_file, upload_dir, cookies, uuid_next, known, otherVars>>

\* Vec::retain on the accounts: those of another username stay
retain_other_users(us, username) == SelectSeq(us, LAMBDA u : u.username # username)

\* an admin_users_delete that does not look at whose account is named
AdminDelete_any_target(h, cookie, username) ==
    /\ NoneDone /\ hs[h].pc = "idle"
    /\ LET who == check_auth(cookie)
           r == [Request("admin_users_delete") EXCEPT
                    !.actor = IF who.some THEN who.val ELSE <<>>, !.name = username]
           kept == retain_other_users(users, username)
           early == IF ~who.some THEN "401"
                    ELSE IF who.val # ADMIN THEN "403"
                    ELSE IF Len(kept) = Len(users) THEN "404"
                    ELSE ""
       IN IF early # ""
          THEN /\ hs' = [hs EXCEPT ![h] = Done(r, early)]
               /\ UNCHANGED users
          ELSE /\ users' = kept
               /\ hs' = [hs EXCEPT ![h] = [r EXCEPT !.pc = "save_users", !.snap = kept]]
    /\ UNCHANGED <<images, settings, rate, upload_token_hash,
                   initial_upload_token_plain, users_file, images_file,
                   settings_file, upload_dir, cookies, uuid_next, known, otherVars>>

\* admin_users_delete up to and including the users lock
AdminDelete(h, cookie, username) ==
    /\ NoneDone /\ hs[h].pc = "idle"
    /\ LET who == check_auth(cookie)
           r == [Request("admin_users_delete") EXCEPT
                    !.actor = IF who.some THEN who.val ELSE <<>>, !.name = username]
           kept == retain_other_users(users, username)
           early == IF ~who.some THEN "401"
                    ELSE IF who.val # ADMIN THEN "403"
                    ELSE IF username = ADMIN THEN "400"
                    ELSE IF Len(kept) = Len(users) THEN "404"
                    ELSE ""
       IN IF early # ""
          THEN /\ hs' = [hs EXCEPT ![h] = Done(r, early)]
               /\ UNCHANGED users
          ELSE /\ users' = kept
               /\ hs' = [hs EXCEPT ![h] = [r EXCEPT !.pc = "save_users", !.snap = kept]]
    /\ UNCHANGED <<images, settings, rate, upload_token_hash,
                   initial_upload_token_plain, users_file, images_file,
                   settings_file, upload_dir, cookies, uuid_next, known, otherVars>>

\* api_settings with newPassword and currentPassword, without
\* newUploadToken, up to the second users lock: the stored hash is read
\* under the lock, then the current password and the length of the new one
\* are checked
SettingsStart(h, cookie, currentPassword, newPassword) ==
    /\ NoneDone /\ hs[h].pc = "idle"
    /\ LET who == check_auth(cookie)
           r == [Request("api_settings") EXCEPT
                    !.actor = IF who.some THEN who.val ELSE <<>>, !.pass = newPassword]
           k == find_user(users, r.actor)
       IN hs' = [hs EXCEPT ![h] =
                    IF ~who.some THEN Done(r, "401")
                    ELSE IF k = 0 THEN Done(r, "404")
                    ELSE IF ~bcrypt_verify(currentPassword, users[k].password_hash)
                         THEN Done(r, "401")
                    ELSE IF Len(newPassword) < 6 THEN Done(r, "400")
                    ELSE [r EXCEPT !.pc = "set_password"]]
    /\ UNCHANGED <<users, images, settings, rate, upload_token_hash,
                   initial_upload_token_plain, users_file, images_file,
                   settings_file, upload_dir, cookies, uuid_next, known, otherVars>>

\* api_settings under the second users lock: the hash is replaced if the
\* account is still there, the snapshot is taken either way
SettingsPassword(h) ==
    /\ NoneDone /\ hs[h].op = "api_settings" /\ hs[h].pc = "set_password"
    /\ LET r == hs[h]
           k == find_user(users, r.actor)
           updated == IF k = 0 THEN users
                      ELSE [users EXCEPT ![k].password_hash = bcrypt_hash(r.pass)]
       IN /\ users' = updated
          /\ hs' = [hs EXCEPT ![h] = [r EXCEPT !.pc = "save_users", !.snap = updated]]
    /\ UNCHANGED <<images, settings, rate, upload_token_hash,
                   initial_upload_token_plain, users_file, images_file,
                   settings_file, upload_dir, cookies, uuid_next, known, otherVars>>

\* the checks api_settings makes before it changes the upload token: ""
\* when they pass, else the status answered
token_change_refused(r) ==
    LET k == find_user(users, r.actor)
    IN IF ~r.current.some THEN "400"
       ELSE IF k = 0 THEN "404"
       ELSE IF ~bcrypt_verify(r.current.val, users[k].password_hash) THEN "401"
       ELSE IF Len(r.token.val) < 6 THEN "400"
       ELSE ""

\* api_settings with any body (the three fields are Options), from
\* check_auth to the point where it is about to change something: the
\* password branch comes first, the token branch is reached at once only
\* when there is no newPassword
ApiSettings(h, cookie, currentPassword, newPassword, newUploadToken) ==
    /\ NoneDone /\ hs[h].pc = "idle"
    /\ LET who == check_auth(cookie)
           r0 == [Request("api_settings") EXCEPT
                     !.actor = IF who.some THEN who.val ELSE <<>>,
                     !.pass = IF newPassword.some THEN newPassword.val ELSE "",
                     !.current = currentPassword, !.token = newUploadToken]
           k == find_user(users, r0.actor)
           r == [r0 EXCEPT !.before =
                    [password_hash |-> IF k = 0 THEN <<>> ELSE users[k].password_hash,
                     upload_token_hash |-> upload_token_hash,
                     initial_upload_token_plain |-> initial_upload_token_plain]]
       IN hs' = [hs EXCEPT ![h] =
                    IF ~who.some THEN Done(r, "401")
                    ELSE IF newPassword.some
                    THEN (IF ~currentPassword.some THEN Done(r, "400")
                          ELSE IF k = 0 THEN Done(r, "404")
                          ELSE IF ~bcrypt_verify(currentPassword.val, users[k].password_hash)
                               THEN Done(r, "401")
                          ELSE IF Len(newPassword.val) < 6 THEN Done(r, "400")
                          ELSE [r EXCEPT !.pc = "set_password"])
                    ELSE IF newUploadToken.some
                    THEN (IF token_change_refused(r) # ""
                          THEN Done(r, token_change_refused(r))
                          ELSE [r EXCEPT !.pc = "token_hash"])
                    ELSE Done(r, "200")]
    /\ UNCHANGED <<users, images, settings, rate, upload_token_hash,
                   initial_upload_token_plain, users_file, images_file,
                   settings_file, upload_dir, cookies, uuid_next, known, otherVars>>

\* api_settings, token branch after the password branch: the stored hash is
\* read again under the users lock and currentPassword is verified against it
SettingsTokenCheck(h) ==
    /\ NoneDone /\ hs[h].op = "api_settings" /\ hs[h].pc = "token_check"
    /\ hs' = [hs EXCEPT ![h] =
                 IF token_change_refused(hs[h]) # ""
                 THEN Done(hs[h], token_change_refused(hs[h]))
                 ELSE [hs[h] EXCEPT !.pc = "token_hash"]]
    /\ UNCHANGED <<users, images, settings, rate, upload_token_hash,
                   initial_upload_token_plain, users_file, images_file,
                   settings_file, upload_dir, cookies, uuid_next, known, otherVars>>

\* { let mut h = state.upload_token_hash.lock(); *h = new_hash; }
SettingsTokenHash(h) ==
    /\ NoneDone /\ hs[h].op = "api_settings" /\ hs[h].pc = "token_hash"
    /\ upload_token_hash' = bcrypt_hash(hs[h].token.val)
    /\ hs' = [hs EXCEPT ![h].pc = "token_plain"]
    /\ UNCHANGED <<users, images, settings, rate, initial_upload_token_plain,
                   users_file, images_file, settings_file, upload_dir, cookies,
                   uuid_next, known, otherVars>>

\* *state.initial_upload_token_plain.lock() = Some(newtok.clone()), then the
\* answer (the .env file is rewritten on the way, its result dropped)
SettingsTokenPlain(h) ==
    /\ NoneDone /\ hs[h].op = "api_settings" /\ hs[h].pc = "token_plain"
    /\ initial_upload_token_plain' = Some(hs[h].token.val)
    /\ hs' = [hs EXCEPT ![h] = Done(hs[h], "200")]
    /\ UNCHANGED <<users, images, settings, rate, upload_token_hash,
                   users_file, images_file, settings_file, upload_dir, cookies,
                   uuid_next, known, otherVars>>

\* rand_hex(24) in generate_sxcu: a token no one has used before, one per
\* worker
fresh_token(h) == IF h = "h1" THEN "c3d4e5f6a7b8c9d0" ELSE "d4e5f6a7b8c9d0e1"

\* generate_sxcu up to the profile or, when no plain token is cached, up to
\* the spawn_blocking that hashes a new one
GenerateSxcu(h, cookie) ==
    /\ NoneDone /\ hs[h].pc = "idle"
    /\ LET who == check_auth(cookie)
           r == [Request("generate_sxcu") EXCEPT
                    !.actor = IF who.some THEN who.val ELSE <<>>]
       IN hs' = [hs EXCEPT ![h] =
                    IF ~who.some THEN Done(r, "401")
                    ELSE IF initial_upload_token_plain.some THEN Done(r, "200")
                    ELSE [r EXCEPT !.pc = "sxcu_hash", !.token = Some(fresh_token(h))]]
    /\ UNCHANGED <<users, images, settings, rate, upload_token_hash,
                   initial_upload_token_plain, users_file, images_file,
                   settings_file, upload_dir, cookies, uuid_next, known, otherVars>>

\* { let mut h = state.upload_token_hash.lock(); *h = new_hash; }
SxcuHash(h) ==
    /\ NoneDone /\ hs[h].op = "generate_sxcu" /\ hs[h].pc = "sxcu_hash"
    /\ upload_token_hash' = bcrypt_hash(hs[h].token.val)
    /\ hs' = [hs EXCEPT ![h].pc = "sxcu_plain"]
    /\ UNCHANGED <<users, images, settings, rate, initial_upload_token_plain,
                   users_file, images_file, settings_file, upload_dir, cookies,
                   uuid_next, known, otherVars>>

\* { let mut p = state.initial_upload_token_plain.lock(); *p = Some(new_tok) }
\* and the profile is returned
SxcuPlain(h) ==
    /\ NoneDone /\ hs[h].op = "generate_sxcu" /\ hs[h].pc = "sxcu_plain"
    /\ initial_upload_token_plain' = Some(hs[h].token.val)
    /\ hs' = [hs EXCEPT ![h] = Done(hs[h], "200")]
    /\ UNCHANGED <<users, images, settings, rate, upload_token_hash,
                   users_file, images_file, settings_file, upload_dir, cookies,
                   uuid_next, known, otherVars>>

\* api_logout: the answer tells the client to drop its cookie; the handler
\* takes no state and reads no cookie
Logout(h) ==
    /\ NoneDone /\ hs[h].pc = "idle"
    /\ hs' = [hs EXCEPT ![h] = Done(Request("api_logout"), "200")]
    /\ UNCHANGED <<users, images, settings, rate, upload_token_hash,
                   initial_upload_token_plain, users_file, images_file,
                   settings_file, upload_dir, cookies, uuid_next, known, otherVars>>

\* admin_users_list: the accounts are read under the lock, nothing changes
AdminUsersList(h, cookie) ==
    /\ NoneDone /\ hs[h].pc = "idle"
    /\ LET who == check_auth(cookie)
           r == [Request("admin_users_list") EXCEPT
                    !.actor = IF who.some THEN who.val ELSE <<>>]
       IN hs' = [hs EXCEPT ![h] =
                    IF ~who.some THEN Done(r, "401")
                    ELSE IF who.val # ADMIN THEN Done(r, "403")
                    ELSE Done(r, "200")]
    /\ UNCHANGED <<users, images, settings, rate, upload_token_hash,
                   initial_upload_token_plain, users_file, images_file,
                   settings_file, upload_dir, cookies, uuid_next, known, otherVars>>

\* admin_register_get: the lock flag is read, nothing changes
AdminRegisterGet(h, cookie) ==
    /\ NoneDone /\ hs[h].pc = "idle"
    /\ LET who == check_auth(cookie)
           r == [Request("admin_register_get") EXCEPT
                    !.actor = IF who.some THEN who.val ELSE <<>>]
       IN hs' = [hs EXCEPT ![h] =
                    IF ~who.some THEN Done(r, "401")
                    ELSE IF who.val # ADMIN THEN Done(r, "403")
                    ELSE Done(r, "200")]
    /\ UNCHANGED <<users, images, settings, rate, upload_token_hash,
                   initial_upload_token_plain, users_file, images_file,
                   settings_file, upload_dir, cookies, uuid_next, known, otherVars>>

\* a decoding that takes every value JavaScript calls truthy as true
decode_blocked_truthy(v) ==
    IF v.t = "bool" THEN v.b
    ELSE IF v.t = "string" THEN v.s # ""
    ELSE v.t \in {"number", "array", "object"}

\* the decoding of RegisterBlockedBody.blocked (a serde_json::Value)
decode_blocked(v) ==
    IF v.t = "bool" THEN v.b
    ELSE IF v.t = "string" /\ v.s = "true" THEN TRUE
    ELSE FALSE

\* admin_register_set up to and including the settings lock
RegisterSet(h, cookie, blocked) ==
    /\ NoneDone /\ hs[h].pc = "idle"
    /\ LET who == check_auth(cookie)
           r == [Request("admin_register_set") EXCEPT
                    !.actor = IF who.some THEN who.val ELSE <<>>]
           val == decode_blocked(blocked)
           early == IF ~who.some THEN "401"
                    ELSE IF who.val # ADMIN THEN "403"
                    ELSE ""
       IN IF early # ""
          THEN /\ hs' = [hs EXCEPT ![h] = Done(r, early)]
               /\ UNCHANGED settings
          ELSE /\ settings' = [registerBlocked |-> val]
               /\ hs' = [hs EXCEPT ![h] = [r EXCEPT !.pc = "save_settings",
                                                   !.snap = [registerBlocked |-> val]]]
    /\ UNCHANGED <<users, images, rate, upload_token_hash,
                   initial_upload_token_plain, users_file, images_file,
                   settings_file, upload_dir, cookies, uuid_next, known, otherVars>>

-----------------------------------------------------------------------------
(* Files of the upload directory (name -> bytes written) and the three     *)
(* JSON documents.                                                         *)

\* OpenOptions::create_new / File::create on a fresh name
create_file(dir, name) ==
    [f \in DOMAIN dir \cup {name} |-> IF f = name THEN 0 ELSE dir[f]]

\* file.write_all(&chunk)
write_all(dir, name, n) ==
    IF name \in DOMAIN dir THEN [dir EXCEPT ![name] = @ + n] ELSE dir

\* tfs::remove_file (best effort: a missing file is no error to the caller)
remove_file(dir, name) == [f \in DOMAIN dir \ {name} |-> dir[f]]

\* images.images.retain(|img| img.filename != safe)
retain_other_filename(imgs, safe) == SelectSeq(imgs, LAMBDA m : m.filename # safe)

\* images.images.retain(|m| m.id != item.id)
retain_other_id(imgs, id) == SelectSeq(imgs, LAMBDA m : m.id # id)

\* u.images.iter().position(|i| i.id == id), 0 for None
position_by_id(imgs, id) ==
    LET hits == {i \in 1..Len(imgs) : imgs[i].id = id}
    IN IF hits = {} THEN 0 ELSE MinOf(hits)

\* Vec::remove(p)
remove_at(seq, p) == [i \in 1..(Len(seq) - 1) |-> IF i < p THEN seq[i] ELSE seq[i + 1]]

\* if let Some(u) = find_user_mut(&mut users, &owner) { u.images.push(meta) }
push_to_owner(us, owner, meta) ==
    LET k == find_user(us, owner)
    IN IF k = 0 THEN us ELSE [us EXCEPT ![k].images = Append(@, meta)]

\* verify_upload_token
verify_upload_token(candidate) ==
    IF candidate = "" THEN FALSE
    ELSE IF initial_upload_token_plain.some /\ candidate = initial_upload_token_plain.val
         THEN TRUE
    ELSE bcrypt_verify(candidate, upload_token_hash)

\* uploads are numbered; the number stands for the generated file name
\* (time stamp, UUID, sanitized name) and for the object's UUID
MaxUploads == 1

\* bytes of the multipart framing that precede the file's bytes in the
\* request body, and that follow them
PartHead == 1
PartTail == 1

\* the layer DefaultBodyLimit::max(max_upload_bytes) caps the body the
\* Multipart extractor reads; the raw Body extractor is not capped by it
body_limit == cfg.max_upload_bytes

\* how a read of the request body can end besides delivering bytes
ReadFaults == {"none", "stream", "write"}

\* what follows save_users / save_images in each handler
AfterSaveUsers(r) ==
    IF r.op = "api_images_delete_by_id" THEN [r EXCEPT !.pc = "dbi_remove", !.snap = <<>>]
    ELSE IF r.op = "api_settings" /\ r.token.some
         THEN [r EXCEPT !.pc = "token_check", !.snap = <<>>]
    ELSE Done(r, "200")

AfterSaveImages(r) ==
    IF r.op = "api_upload_dashboard" THEN [r EXCEPT !.pc = "dash_users", !.snap = <<>>]
    ELSE IF r.op = "upload_handler" /\ r.owner.some
         THEN [r EXCEPT !.pc = "fin_users", !.snap = <<>>]
    ELSE IF r.op = "api_images_delete_by_filename"
         THEN [r EXCEPT !.pc = "dbf_users", !.snap = <<>>]
    ELSE Done(r, "200")

\* a response that carries the object's URL makes its name known
Published(r) ==
    IF r.pc = "done" /\ r.resp = "200" /\ r.op \in {"api_upload_dashboard", "upload_handler"}
    THEN {r.file} ELSE {}

\* a save that writes the accounts as they are in memory at the time of the
\* write instead of the snapshot
SaveUsers_current(h, ok) ==
    /\ NoneDone /\ hs[h].pc = "save_users"
    /\ users_file' = IF ok THEN users ELSE users_file
    /\ hs' = [hs EXCEPT ![h] = AfterSaveUsers(hs[h])]
    /\ known' = known \cup Published(AfterSaveUsers(hs[h]))
    /\ UNCHANGED <<users, images, settings, rate, upload_token_hash,
                   initial_upload_token_plain, images_file, settings_file,
                   upload_dir, cookies, uuid_next, otherVars>>

\* save_users(&cfg, &snapshot).await; the result is dropped (let _ =), so
\* the handler goes on the same whether the write succeeded or not
SaveUsers(h, ok) ==
    /\ NoneDone /\ hs[h].pc = "save_users"
    /\ users_file' = IF ok THEN hs[h].snap ELSE users_file
    /\ hs' = [hs EXCEPT ![h] = AfterSaveUsers(hs[h])]
    /\ known' = known \cup Published(AfterSaveUsers(hs[h]))
    /\ UNCHANGED <<users, images, settings, rate, upload_token_hash,
                   initial_upload_token_plain, images_file, settings_file,
                   upload_dir, cookies, uuid_next, otherVars>>

\* a save of the objects that returns without having written the file
SaveImages_not_written(h, ok) ==
    /\ NoneDone /\ hs[h].pc = "save_images"
    /\ images_file' = images_file
    /\ hs' = [hs EXCEPT ![h] = AfterSaveImages(hs[h])]
    /\ known' = known \cup Published(AfterSaveImages(hs[h]))
    /\ UNCHANGED <<users, images, settings, rate, upload_token_hash,
                   initial_upload_token_plain, users_file, settings_file,
                   upload_dir, cookies, uuid_next, otherVars>>

\* save_images(&cfg, &snapshot).await
SaveImages(h, ok) ==
    /\ NoneDone /\ hs[h].pc = "save_images"
    /\ images_file' = IF ok THEN hs[h].snap ELSE images_file
    /\ hs' = [hs EXCEPT ![h] = AfterSaveImages(hs[h])]
    /\ known' = known \cup Published(AfterSaveImages(hs[h]))
    /\ UNCHANGED <<users, images, settings, rate, upload_token_hash,
                   initial_upload_token_plain, users_file, settings_file,
                   upload_dir, cookies, uuid_next, otherVars>>

\* save_settings(&cfg, &snapshot).await
SaveSettings(h, ok) ==
    /\ NoneDone /\ hs[h].pc = "save_settings"
    /\ settings_file' = IF ok THEN hs[h].snap ELSE settings_file
    /\ hs' = [hs EXCEPT ![h] = Done(hs[h], "200")]
    /\ UNCHANGED <<users, images, settings, rate, upload_token_hash,
                   initial_upload_token_plain, users_file, images_file,
                   upload_dir, cookies, uuid_next, known, otherVars>>

-----------------------------------------------------------------------------
(* Uploads.                                                                *)

\* a test of the count as it was before the chunk was added
size_over_cap_before_chunk(size, n) == size > cfg.max_upload_bytes

\* size += chunk.len() as u64; if size > state.cfg.max_upload_bytes
size_over_cap(size, n) == size + n > cfg.max_upload_bytes

\* the metadata record both upload paths build
UploadMeta(r) == ImageMeta(r.id, r.file, r.size, r.owner)

\* api_upload_dashboard up to the first read of the file field: the
\* session check, next_field, File::create
DashStart(h, cookie, has_file, total) ==
    /\ NoneDone /\ hs[h].pc = "idle"
    /\ LET who == check_auth(cookie)
           r0 == Request("api_upload_dashboard")
           r == [r0 EXCEPT !.actor = IF who.some THEN who.val ELSE <<>>,
                           !.owner = who, !.file = uuid_next, !.id = uuid_next,
                           !.left = total, !.pc = "dash_chunk"]
       IN IF ~who.some
          THEN /\ hs' = [hs EXCEPT ![h] = Done(r0, "401")]
               /\ UNCHANGED <<upload_dir, uuid_next>>
          ELSE IF ~has_file \/ PartHead > body_limit
          THEN /\ hs' = [hs EXCEPT ![h] = Done(r0, "400")]
               /\ UNCHANGED <<upload_dir, uuid_next>>
          ELSE /\ uuid_next <= MaxUploads
               /\ upload_dir' = create_file(upload_dir, uuid_next)
               /\ uuid_next' = uuid_next + 1
               /\ hs' = [hs EXCEPT ![h] = r]
    /\ UNCHANGED <<users, images, settings, rate, upload_token_hash,
                   initial_upload_token_plain, users_file, images_file,
                   settings_file, cookies, known, otherVars>>

\* one turn of `while let Some(chunk) = stream.chunk().await.unwrap()`:
\* a read error (the connection broke, or the body limit was passed)
\* panics in unwrap and nothing after it runs; at the end of the field
\* the object is pushed to the global collection
DashChunk(h, n, fault) ==
    /\ NoneDone /\ hs[h].op = "api_upload_dashboard" /\ hs[h].pc = "dash_chunk"
    /\ LET r == hs[h]
           consumed == PartHead + r.size
           pushed == Append(images, UploadMeta(r))
       IN IF r.left > 0
          THEN /\ n \in 1..r.left
               /\ IF fault = "stream" \/ consumed + n > body_limit
                  THEN /\ hs' = [hs EXCEPT ![h] =
                                    Done([r EXCEPT !.cause = IF fault = "stream"
                                                             THEN "stream" ELSE "limit"],
                                         "panic")]
                       /\ UNCHANGED <<upload_dir, images>>
                  ELSE IF size_over_cap(r.size, n)
                  THEN /\ upload_dir' = remove_file(upload_dir, r.file)
                       /\ hs' = [hs EXCEPT ![h] = Done([r EXCEPT !.cause = "cap"], "413")]
                       /\ UNCHANGED images
                  ELSE IF fault = "write"
                  THEN /\ upload_dir' = remove_file(upload_dir, r.file)
                       /\ hs' = [hs EXCEPT ![h] = Done([r EXCEPT !.cause = "write"], "400")]
                       /\ UNCHANGED images
                  ELSE /\ upload_dir' = write_all(upload_dir, r.file, n)
                       /\ hs' = [hs EXCEPT ![h] = [r EXCEPT !.size = @ + n, !.left = @ - n]]
                       /\ UNCHANGED images
          ELSE /\ n = 0 /\ fault # "write"
               /\ IF fault = "stream" \/ consumed + PartTail > body_limit
                  THEN /\ hs' = [hs EXCEPT ![h] =
                                    Done([r EXCEPT !.cause = IF fault = "stream"
                                                             THEN "stream" ELSE "limit"],
                                         "panic")]
                       /\ UNCHANGED <<upload_dir, images>>
                  ELSE /\ images' = pushed
                       /\ hs' = [hs EXCEPT ![h] = [r EXCEPT !.pc = "save_images",
                                                           !.snap = pushed]]
                       /\ UNCHANGED upload_dir
    /\ UNCHANGED <<users, settings, rate, upload_token_hash,
                   initial_upload_token_plain, users_file, images_file,
                   settings_file, cookies, uuid_next, known, otherVars>>

\* api_upload_dashboard under the users lock
DashUsers(h) ==
    /\ NoneDone /\ hs[h].op = "api_upload_dashboard" /\ hs[h].pc = "dash_users"
    /\ LET r == hs[h]
           pushed == push_to_owner(users, r.actor, UploadMeta(r))
       IN /\ users' = pushed
          /\ hs' = [hs EXCEPT ![h] = [r EXCEPT !.pc = "save_users", !.snap = pushed]]
          /\ known' = IF find_user(users, r.actor) # 0 THEN known \cup {r.file} ELSE known
    /\ UNCHANGED <<images, settings, rate, upload_token_hash,
                   initial_upload_token_plain, users_file, images_file,
                   settings_file, upload_dir, cookies, uuid_next, otherVars>>

\* an upload_handler that looks at the bearer token before the rate
\* limiter, so that a request without the token costs nothing
RawStart_token_first(h, ip, token, email_hdr, total) ==
    /\ NoneDone /\ hs[h].pc = "idle"
    /\ rate' = IF verify_upload_token(token) THEN rate_after(rate, ip, clock) ELSE rate
    /\ LET r0 == Request("upload_handler")
           r == [r0 EXCEPT !.email = email_hdr, !.file = uuid_next, !.id = uuid_next,
                           !.left = total, !.pc = "raw_chunk"]
       IN IF ~verify_upload_token(token)
          THEN /\ hs' = [hs EXCEPT ![h] = Done(r0, "401")]
               /\ UNCHANGED <<upload_dir, uuid_next>>
          ELSE IF ~allow_rate(rate, ip, clock)
          THEN /\ hs' = [hs EXCEPT ![h] = Done(r0, "429")]
               /\ UNCHANGED <<upload_dir, uuid_next>>
          ELSE /\ uuid_next <= MaxUploads
               /\ upload_dir' = create_file(upload_dir, uuid_next)
               /\ uuid_next' = uuid_next + 1
               /\ hs' = [hs EXCEPT ![h] = r]
    /\ UNCHANGED <<users, images, settings, upload_token_hash,
                   initial_upload_token_plain, users_file, images_file,
                   settings_file, cookies, known, otherVars>>

\* upload_handler up to the first read of the body: allow_rate, the
\* bearer token, OpenOptions::create_new
RawStart(h, ip, token, email_hdr, total) ==
    /\ NoneDone /\ hs[h].pc = "idle"
    /\ rate' = rate_after(rate, ip, clock)
    /\ LET r0 == Request("upload_handler")
           r == [r0 EXCEPT !.email = email_hdr, !.file = uuid_next, !.id = uuid_next,
                           !.left = total, !.pc = "raw_chunk"]
       IN IF ~allow_rate(rate, ip, clock)
          THEN /\ hs' = [hs EXCEPT ![h] = Done(r0, "429")]
               /\ UNCHANGED <<upload_dir, uuid_next>>
          ELSE IF ~verify_upload_token(token)
          THEN /\ hs' = [hs EXCEPT ![h] = Done(r0, "401")]
               /\ UNCHANGED <<upload_dir, uuid_next>>
          ELSE /\ uuid_next <= MaxUploads
               /\ upload_dir' = create_file(upload_dir, uuid_next)
               /\ uuid_next' = uuid_next + 1
               /\ hs' = [hs EXCEPT ![h] = r]
    /\ UNCHANGED <<users, images, settings, upload_token_hash,
                   initial_upload_token_plain, users_file, images_file,
                   settings_file, cookies, known, otherVars>>

\* one turn of `while let Some(chunk_res) = stream.next().await`; at the
\* end of the body finalize_upload resolves the owner under the users
\* lock and pushes the object to the global collection
RawChunk(h, n, fault) ==
    /\ NoneDone /\ hs[h].op = "upload_handler" /\ hs[h].pc = "raw_chunk"
    /\ LET r == hs[h]
           owner == find_user_by_email(users, r.email)
           pushed == Append(images, UploadMeta([r EXCEPT !.owner = owner]))
       IN IF r.left > 0 \/ fault = "stream"
          THEN /\ IF r.left > 0 THEN n \in 1..r.left ELSE n = 0
               /\ IF fault = "stream"
                  THEN /\ upload_dir' = remove_file(upload_dir, r.file)
                       /\ hs' = [hs EXCEPT ![h] = Done([r EXCEPT !.cause = "stream"], "400")]
                  ELSE IF size_over_cap(r.size, n)
                  THEN /\ upload_dir' = remove_file(upload_dir, r.file)
                       /\ hs' = [hs EXCEPT ![h] = Done([r EXCEPT !.cause = "cap"], "413")]
                  ELSE IF fault = "write"
                  THEN /\ upload_dir' = remove_file(upload_dir, r.file)
                       /\ hs' = [hs EXCEPT ![h] = Done([r EXCEPT !.cause = "write"], "400")]
                  ELSE /\ upload_dir' = write_all(upload_dir, r.file, n)
                       /\ hs' = [hs EXCEPT ![h] = [r EXCEPT !.size = @ + n, !.left = @ - n]]
               /\ UNCHANGED images
          ELSE /\ n = 0 /\ fault = "none"
               /\ images' = pushed
               /\ hs' = [hs EXCEPT ![h] = [r EXCEPT !.owner = owner, !.pc = "save_images",
                                                   !.snap = pushed]]
               /\ UNCHANGED upload_dir
    /\ UNCHANGED <<users, settings, rate, upload_token_hash,
                   initial_upload_token_plain, users_file, images_file,
                   settings_file, cookies, uuid_next, known, otherVars>>

\* finalize_upload under the users lock (only when an owner was resolved)
FinUsers(h) ==
    /\ NoneDone /\ hs[h].op = "upload_handler" /\ hs[h].pc = "fin_users"
    /\ LET r == hs[h]
           pushed == push_to_owner(users, r.owner.val, UploadMeta(r))
       IN /\ users' = pushed
          /\ hs' = [hs EXCEPT ![h] = [r EXCEPT !.pc = "save_users", !.snap = pushed]]
          /\ known' = IF find_user(users, r.owner.val) # 0 THEN known \cup {r.file}
                      ELSE known
    /\ UNCHANGED <<images, settings, rate, upload_token_hash,
                   initial_upload_token_plain, users_file, images_file,
                   settings_file, upload_dir, cookies, uuid_next, otherVars>>

-----------------------------------------------------------------------------
(* Deletions.                                                              *)

\* a delete-by-id that reads the item under the users lock and leaves
\* the owned list as it is
DelIdStart_item_kept(h, cookie, id) ==
    /\ NoneDone /\ hs[h].pc = "idle"
    /\ LET who == check_auth(cookie)
           r0 == [Request("api_images_delete_by_id") EXCEPT
                     !.actor = IF who.some THEN who.val ELSE <<>>, !.target = id]
           k == find_user(users, r0.actor)
           pos == IF k = 0 THEN 0 ELSE position_by_id(users[k].images, id)
           item == users[k].images[pos]
       IN IF ~who.some
          THEN hs' = [hs EXCEPT ![h] = Done(r0, "401")]
          ELSE IF k = 0 \/ pos = 0
          THEN hs' = [hs EXCEPT ![h] = Done(r0, "404")]
          ELSE hs' = [hs EXCEPT ![h] = [r0 EXCEPT !.file = item.filename, !.id = item.id,
                                                  !.pc = "save_users", !.snap = users]]
    /\ UNCHANGED <<users, images, settings, rate, upload_token_hash,
                   initial_upload_token_plain, users_file, images_file,
                   settings_file, upload_dir, cookies, uuid_next, known, otherVars>>

\* api_images_delete_by_id up to and including the users lock
DelIdStart(h, cookie, id) ==
    /\ NoneDone /\ hs[h].pc = "idle"
    /\ LET who == check_auth(cookie)
           r0 == [Request("api_images_delete_by_id") EXCEPT
                     !.actor = IF who.some THEN who.val ELSE <<>>, !.target = id]
           k == find_user(users, r0.actor)
           pos == IF k = 0 THEN 0 ELSE position_by_id(users[k].images, id)
           item == users[k].images[pos]
           removed == [users EXCEPT ![k].images = remove_at(@, pos)]
       IN IF ~who.some
          THEN /\ hs' = [hs EXCEPT ![h] = Done(r0, "401")]
               /\ UNCHANGED users
          ELSE IF k = 0 \/ pos = 0
          THEN /\ hs' = [hs EXCEPT ![h] = Done(r0, "404")]
               /\ UNCHANGED users
          ELSE /\ users' = removed
               /\ hs' = [hs EXCEPT ![h] = [r0 EXCEPT !.file = item.filename, !.id = item.id,
                                                    !.pc = "save_users", !.snap = removed]]
    /\ UNCHANGED <<images, settings, rate, upload_token_hash,
                   initial_upload_token_plain, users_file, images_file,
                   settings_file, upload_dir, cookies, uuid_next, known, otherVars>>

\* api_images_delete_by_id: tfs::remove_file(&path).await
DelIdRemove(h) ==
    /\ NoneDone /\ hs[h].op = "api_images_delete_by_id" /\ hs[h].pc = "dbi_remove"
    /\ upload_dir' = remove_file(upload_dir, hs[h].file)
    /\ hs' = [hs EXCEPT ![h].pc = "dbi_images"]
    /\ UNCHANGED <<users, images, settings, rate, upload_token_hash,
                   initial_upload_token_plain, users_file, images_file,
                   settings_file, cookies, uuid_next, known, otherVars>>

\* api_images_delete_by_id under the images lock
DelIdImages(h) ==
    /\ NoneDone /\ hs[h].op = "api_images_delete_by_id" /\ hs[h].pc = "dbi_images"
    /\ images' = retain_other_id(images, hs[h].id)
    /\ hs' = [hs EXCEPT ![h].pc = "save_images",
                        ![h].snap = retain_other_id(images, hs[h].id)]
    /\ UNCHANGED <<users, settings, rate, upload_token_hash,
                   initial_upload_token_plain, users_file, images_file,
                   settings_file, upload_dir, cookies, uuid_next, known, otherVars>>

\* api_images_delete_by_filename up to and including remove_file
\* (body.filename is a generated name or one that names nothing)
DelNameStart(h, cookie, filename) ==
    /\ NoneDone /\ hs[h].pc = "idle"
    /\ LET who == check_auth(cookie)
           r0 == [Request("api_images_delete_by_filename") EXCEPT
                     !.actor = IF who.some THEN who.val ELSE <<>>, !.file = filename]
       IN IF ~who.some
          THEN /\ hs' = [hs EXCEPT ![h] = Done(r0, "401")]
               /\ UNCHANGED upload_dir
          ELSE /\ upload_dir' = remove_file(upload_dir, filename)
               /\ hs' = [hs EXCEPT ![h] = [r0 EXCEPT !.pc = "dbf_images"]]
    /\ UNCHANGED <<users, images, settings, rate, upload_token_hash,
                   initial_upload_token_plain, users_file, images_file,
                   settings_file, cookies, uuid_next, known, otherVars>>

\* api_images_delete_by_filename under the images lock
DelNameImages(h) ==
    /\ NoneDone /\ hs[h].op = "api_images_delete_by_filename" /\ hs[h].pc = "dbf_images"
    /\ images' = retain_other_filename(images, hs[h].file)
    /\ hs' = [hs EXCEPT ![h].pc = "save_images",
                        ![h].snap = retain_other_filename(images, hs[h].file)]
    /\ UNCHANGED <<users, settings, rate, upload_token_hash,
                   initial_upload_token_plain, users_file, images_file,
                   settings_file, upload_dir, cookies, uuid_next, known, otherVars>>

\* for u in users.users.iter_mut() { u.images.retain(|m| m.filename != safe) }
retain_in_all_users(us, safe) ==
    [i \in 1..Len(us) |-> [us[i] EXCEPT !.images = retain_other_filename(@, safe)]]

\* api_images_delete_by_filename under the users lock
DelNameUsers(h) ==
    /\ NoneDone /\ hs[h].op = "api_images_delete_by_filename" /\ hs[h].pc = "dbf_users"
    /\ users' = retain_in_all_users(users, hs[h].file)
    /\ hs' = [hs EXCEPT ![h].pc = "save_users",
                        ![h].snap = retain_in_all_users(users, hs[h].file)]
    /\ UNCHANGED <<images, settings, rate, upload_token_hash,
                   initial_upload_token_plain, users_file, images_file,
                   settings_file, upload_dir, cookies, uuid_next, known, otherVars>>

-----------------------------------------------------------------------------
(* The object server: image_raw, image_head, image_view.  A path is a     *)
(* sequence of components below the working directory; a URL segment is a *)
(* sequence of tokens, each a run of characters without a slash or one     *)
(* percent-encoded character.                                              *)

\* cfg.upload_dir: PathBuf::from(DEFAULT_UPLOAD_DIR)
UPLOAD_DIR == <<"uploads">>

\* the directories the process runs in: the working directory, the upload
\* directory and data_dir
Directories == {<<>>, UPLOAD_DIR, <<"data">>}

\* files outside the upload directory: the three documents and .env
OtherFiles ==
    {<<"data", "users.json">>, <<"data", "images.json">>,
     <<"data", "settings.json">>, <<".env">>}

\* a file of another tree, named by an absolute path
AbsoluteFiles == {<<"/", "etc", "passwd">>}

\* the name under which upload number n is stored
stored_name(n) == Digit[n + 1]

UploadFiles == {<<"uploads", stored_name(n)>> : n \in DOMAIN upload_dir}

Files == UploadFiles \cup OtherFiles \cup AbsoluteFiles

\* metadata().len(): uploads have the length that was written, the other
\* files some length
file_len(path) ==
    IF path \in UploadFiles THEN upload_dir[DigitVal(path[2])] ELSE 2

\* the Path extractor percent-decodes the captured segment
percent_decode(seg) ==
    [i \in 1..Len(seg) |-> IF seg[i] = "%2F" THEN "/"
                           ELSE IF seg[i] = "%2E%2E" THEN ".."
                           ELSE seg[i]]

\* Path::components of a string: the names between the slashes, without
\* the empty ones and the "." ones; a leading slash makes the root component
path_components(name) ==
    LET parts == split(name, "/")
        names == SelectSeq(parts, LAMBDA q : q # <<>> /\ q # <<".">>)
        comps == [i \in 1..Len(names) |-> names[i][1]]
    IN IF Len(name) > 0 /\ name[1] = "/" THEN <<"/">> \o comps ELSE comps

\* PathBuf::join: an absolute argument replaces the base
path_join(base, name) ==
    IF Len(name) > 0 /\ name[1] = "/" THEN path_components(name)
    ELSE base \o path_components(name)

\* Path::starts_with: component-wise prefix, nothing is resolved
path_starts_with(path, base) ==
    Len(path) >= Len(base) /\ SubSeq(path, 1, Len(base)) = base

RECURSIVE walk(_, _)
\* what the file system makes of a path: every ".." leaves a directory
\* that exists (None: no such file or directory)
walk(stack, rest) ==
    IF Len(rest) = 0 THEN Some(stack)
    ELSE IF stack \notin Directories THEN None
    ELSE IF Head(rest) = ".."
         THEN (IF Len(stack) = 0 THEN None ELSE walk(pop(stack), Tail(rest)))
    ELSE walk(Append(stack, Head(rest)), Tail(rest))

resolve(path) ==
    IF Len(path) > 0 /\ path[1] = "/" THEN Some(path) ELSE walk(<<>>, path)

\* Path::exists
path_exists(path) ==
    resolve(path).some /\ resolve(path).val \in Files \cup Directories

\* a prefix test that lets every string through
strip_prefix_lenient(str, prefix) ==
    IF Len(str) >= Len(prefix) /\ SubSeq(str, 1, Len(prefix)) = prefix
    THEN Some(SubSeq(str, Len(prefix) + 1, Len(str)))
    ELSE Some(str)

\* str::strip_prefix
strip_prefix(str, prefix) ==
    IF Len(str) >= Len(prefix) /\ SubSeq(str, 1, Len(prefix)) = prefix
    THEN Some(SubSeq(str, Len(prefix) + 1, Len(str)))
    ELSE None

\* str::split_once(sep)
split_once(str, sep) ==
    IF \A i \in 1..Len(str) : str[i] # sep THEN None
    ELSE LET i == MinOf({k \in 1..Len(str) : str[k] = sep})
         IN Some(<<SubSeq(str, 1, i - 1), SubSeq(str, i + 1, Len(str))>>)

\* file.take(len) alone: the reader was left at the start of the file
take_unseeked(L, start, len) ==
    [i \in 1..Min(len, L) |-> i - 1]

\* file.seek(SeekFrom::Start(start)) and file.take(len) on a file of
\* length L whose byte at offset k is written k
seek_take(L, start, len) ==
    [i \in 1..Min(len, saturating_sub(L, start)) |-> start + i - 1]

BYTES_EQ == <<"b", "y", "t", "e", "s", "=">>
IMMUTABLE == "public, max-age=31536000, immutable"

\* format!("bytes {}-{}/{}", start, end, total_len)
content_range(start, end, total_len) ==
    <<"b", "y", "t", "e", "s", " ">> \o to_string(start) \o <<"-">>
        \o to_string(end) \o <<"/">> \o to_string(total_len)

\* json_error(StatusCode::NOT_FOUND, ..) and (StatusCode::NOT_FOUND, "")
NotFound == [NoResponse EXCEPT !.status = "404"]

\* the start and end image_raw derives from what follows "bytes="; checked
\* tells whether the build traps on integer overflow (where it does, the
\* handler panics) or wraps
range_bounds(total_len, rest, checked) ==
    LET so == split_once(rest, "-")
        end0 == saturating_sub(total_len, 1)
    IN IF ~so.some THEN [kind |-> "range", start |-> 0, end |-> end0]
       ELSE LET sv == parse_u64(so.val[1])
                ev == parse_u64(so.val[2])
                start == IF sv.some THEN sv.val ELSE 0
                end1 == IF ev.some THEN ev.val ELSE end0
                end == IF end1 >= total_len THEN wrapping_sub(total_len, 1) ELSE end1
            IN IF end1 >= total_len /\ total_len = 0 /\ checked
               THEN [kind |-> "panic", start |-> start, end |-> end1]
               ELSE IF start > end
               THEN [kind |-> "unsatisfiable", start |-> start, end |-> end]
               ELSE [kind |-> "range", start |-> start, end |-> end]

\* the response image_raw builds for a range that can be served
partial_content(at, total_len, start, len, end) ==
    [status |-> "206", content_range |-> content_range(start, end, total_len),
     content_length |-> len, accept_ranges |-> "bytes", cache_control |-> IMMUTABLE,
     body |-> seek_take(total_len, start, len), read |-> at]

\* image_raw: range is the Range header (None when there is none)
image_raw(seg, range, checked) ==
    LET file_path == path_join(UPLOAD_DIR, percent_decode(seg))
        at == resolve(file_path).val
        total_len == file_len(at)
        range_hdr == IF range.some THEN range.val ELSE <<>>
        rest == strip_prefix(range_hdr, BYTES_EQ)
        b == range_bounds(total_len, rest.val, checked)
    IN IF ~path_starts_with(file_path, UPLOAD_DIR) \/ ~path_exists(file_path)
       THEN NotFound
       ELSE IF at \notin Files THEN NotFound
       ELSE IF ~rest.some
       THEN [status |-> "200", content_range |-> <<>>, content_length |-> total_len,
             accept_ranges |-> "bytes", cache_control |-> IMMUTABLE,
             body |-> seek_take(total_len, 0, total_len), read |-> at]
       ELSE IF b.kind = "panic"
       THEN [NoResponse EXCEPT !.status = "panic", !.read = at]
       ELSE IF b.kind = "unsatisfiable"
       THEN [NoResponse EXCEPT !.status = "416", !.content_length = 0, !.read = at]
       ELSE IF b.end - b.start + 1 > U64_MAX
       THEN (IF checked THEN [NoResponse EXCEPT !.status = "panic", !.read = at]
             ELSE partial_content(at, total_len, b.start,
                                  wrapping_add(b.end - b.start, 1), b.end))
       ELSE partial_content(at, total_len, b.start, b.end - b.start + 1, b.end)

\* image_head
image_head(seg) ==
    LET file_path == path_join(UPLOAD_DIR, percent_decode(seg))
        at == resolve(file_path).val
    IN IF ~path_starts_with(file_path, UPLOAD_DIR) \/ ~path_exists(file_path)
       THEN NotFound
       ELSE [NoResponse EXCEPT !.status = "200", !.accept_ranges = "bytes",
                               !.content_length = IF at \in Files THEN file_len(at) ELSE 0,
                               !.read = at]

\* image_view: the preview page of a file that exists
image_view(seg) ==
    LET file_path == path_join(UPLOAD_DIR, percent_decode(seg))
        at == resolve(file_path).val
    IN IF ~path_starts_with(file_path, UPLOAD_DIR) \/ ~path_exists(file_path)
       THEN NotFound
       ELSE [NoResponse EXCEPT !.status = "200", !.cache_control = "public, max-age=60",
                               !.read = at]

retrievalUnchanged ==
    <<users, images, settings, rate, upload_token_hash, initial_upload_token_plain,
      users_file, images_file, settings_file, upload_dir, clock, cookies, uuid_next,
      known, hs, sess, rate_log, boot, locks, sanitized, cfg>>

\* GET /i/:filename
ImageRaw(seg, range, checked) ==
    /\ get = NoGet
    /\ get' = [method |-> "GET", segment |-> seg, range |-> range,
               resp |-> image_raw(seg, range, checked)]
    /\ UNCHANGED retrievalUnchanged

\* HEAD /i/:filename
ImageHead(seg) ==
    /\ get = NoGet
    /\ get' = [method |-> "HEAD", segment |-> seg, range |-> None,
               resp |-> image_head(seg)]
    /\ UNCHANGED retrievalUnchanged

\* GET /i/:filename/view
ImageView(seg) ==
    /\ get = NoGet
    /\ get' = [method |-> "VIEW", segment |-> seg, range |-> None,
               resp |-> image_view(seg)]
    /\ UNCHANGED retrievalUnchanged

\* the response has been sent
RetrievalReturn ==
    /\ get # NoGet
    /\ get' = NoGet
    /\ UNCHANGED retrievalUnchanged

-----------------------------------------------------------------------------
(* Startup: ensure_data_and_admin, then load_all.                          *)

\* Path::exists
exists(f) == f.kind # "missing"

\* tfs::read(..).await.unwrap_or_default(): no bytes when the read fails
read_or_default(f) == IF exists(f) THEN f ELSE DiskFile("empty", f.val)

\* serde_json::from_slice: Ok only for JSON of the expected shape
from_slice(bytes) == IF bytes.kind = "json" THEN Some(bytes.val) ELSE None

\* Result::unwrap_or_default
unwrap_or_default(o, default) == IF o.some THEN o.val ELSE default

\* a first run that writes no account
bootstrap_users_none(admin_pass) == <<>>

\* the UsersJson ensure_data_and_admin writes when there is no users.json
bootstrap_users(admin_pass) ==
    <<User(ADMIN, bcrypt_hash(admin_pass), ADMIN_EMAIL, "admin")>>

\* ensure_data_and_admin; fail_at names the file whose tfs::write fails,
\* if it is written at all ("none": every write succeeds).  An existing
\* users.json is parsed and left as it is (the preferences it may rewrite
\* are not modelled).
EnsureDataAndAdmin(fail_at) ==
    /\ boot.pc = "start"
    /\ LET admin_pass == IF boot.admin_env.some THEN boot.admin_env.val
                         ELSE ADMIN_PASSWORD
           users_err == ~exists(boot.users_file) /\ fail_at = "users"
           images_err == ~exists(boot.images_file) /\ fail_at = "images"
           settings_err == ~exists(boot.settings_file) /\ fail_at = "settings"
           users_written == ~exists(boot.users_file) /\ ~users_err
           images_written == ~exists(boot.images_file) /\ ~users_err /\ ~images_err
           settings_written == /\ ~exists(boot.settings_file)
                               /\ ~users_err /\ ~images_err /\ ~settings_err
       IN boot' = [boot EXCEPT
              !.pc = IF users_err \/ images_err \/ settings_err THEN "failed"
                     ELSE "ensured",
              !.users_file = IF users_written
                             THEN DiskFile("json", bootstrap_users(admin_pass))
                             ELSE @,
              !.first_admin_plain = IF users_written THEN Some(admin_pass) ELSE None,
              !.images_file = IF images_written THEN DiskFile("json", <<>>) ELSE @,
              !.settings_file = IF settings_written
                                THEN DiskFile("json", DefaultSettings) ELSE @]
    /\ UNCHANGED <<users, images, settings, rate, upload_token_hash,
                   initial_upload_token_plain, users_file, images_file,
                   settings_file, upload_dir, clock, cookies, uuid_next, known, hs,
                   sess, rate_log, get, locks, sanitized, cfg>>

\* load_all, and the collections put in AppState
LoadAll ==
    /\ boot.pc = "ensured"
    /\ users' = unwrap_or_default(from_slice(read_or_default(boot.users_file)), <<>>)
    /\ images' = unwrap_or_default(from_slice(read_or_default(boot.images_file)), <<>>)
    /\ settings' = unwrap_or_default(from_slice(read_or_default(boot.settings_file)),
                                     DefaultSettings)
    /\ boot' = [boot EXCEPT !.pc = "loaded"]
    /\ UNCHANGED <<rate, upload_token_hash, initial_upload_token_plain, users_file,
                   images_file, settings_file, upload_dir, clock, cookies, uuid_next,
                   known, hs, sess, rate_log, get, locks, sanitized, cfg>>

\* what users.json, images.json and settings.json can hold when main starts
Malformed == {"not_json", "wrong_shape"}

StartUsers ==
    {DiskFile(k, <<>>) : k \in {"missing"} \cup Malformed}
        \cup {DiskFile("json", v) :
                 v \in {<<>>, bootstrap_users(ADMIN_PASSWORD),
                        Append(bootstrap_users(ADMIN_PASSWORD),
                               User(<<"b", "o", "b">>, bcrypt_hash("secret"),
                                    <<"b", "@", "x", ".", "y">>, "user"))}}

StartImages ==
    {DiskFile(k, <<>>) : k \in {"missing"} \cup Malformed}
        \cup {DiskFile("json", v) : v \in {<<>>, <<ImageMeta(1, 1, 1, None)>>}}

StartSettings ==
    {DiskFile(k, DefaultSettings) : k \in {"missing"} \cup Malformed}
        \cup {DiskFile("json", [registerBlocked |-> b]) : b \in BOOLEAN}

\* the ADMIN_PASSWORD of .env
AdminPasswordEnv == {None, Some("from-env")}

InitBoot ==
    /\ \E u \in StartUsers, i \in StartImages, t \in StartSettings, a \in AdminPasswordEnv :
           boot = [pc |-> "start", users_file |-> u, images_file |-> i,
                   settings_file |-> t, admin_env |-> a, first_admin_plain |-> None,
                   at_start |-> [users |-> u.kind, images |-> i.kind,
                                 settings |-> t.kind]]
    /\ users = <<>> /\ images = <<>> /\ settings = DefaultSettings
    /\ rate = EmptyMap
    /\ upload_token_hash = bcrypt_hash(FIRST_UPLOAD_TOKEN)
    /\ initial_upload_token_plain = Some(FIRST_UPLOAD_TOKEN)
    /\ users_file = <<>> /\ images_file = <<>> /\ settings_file = DefaultSettings
    /\ upload_dir = EmptyMap
    /\ clock = ClockMin
    /\ cookies = {}
    /\ uuid_next = 1
    /\ known = {}
    /\ get = NoGet
    /\ locks = AllFree
    /\ sanitized = NoName
    /\ hs = [h \in Handlers |-> Idle]
    /\ sess = NoSess
    /\ rate_log = EmptyMap
    /\ cfg = DefaultCfg

NextBoot ==
    \/ \E fail_at \in {"none", "users", "images", "settings"} : EnsureDataAndAdmin(fail_at)
    \/ LoadAll

SpecBoot == InitBoot /\ [][NextBoot]_vars

-----------------------------------------------------------------------------
(* Lock discipline: what each handler does with the mutexes, step by step. *)
(* A step is <<kind, what>>: "lock" and "unlock" of a mutex (a guard is    *)
(* dropped at the end of its block, of its statement or of its function),  *)
(* "mem" for work in memory, "io" for an .await on the disk or the socket. *)

\* allow_rate: the guard lives to the end of the function
allow_rate_steps ==
    <<<<"lock", "rate">>, <<"mem", "refill and take">>, <<"unlock", "rate">>>>

\* verify_upload_token when the plain token does not match
verify_upload_token_steps ==
    <<<<"lock", "initial_upload_token_plain">>, <<"mem", "compare">>,
      <<"unlock", "initial_upload_token_plain">>,
      <<"lock", "upload_token_hash">>, <<"mem", "clone">>,
      <<"unlock", "upload_token_hash">>, <<"mem", "bcrypt::verify">>>>

\* a finalize_upload whose images guard is still alive during save_images
finalize_upload_steps_guard_kept ==
    <<<<"lock", "users">>, <<"mem", "find_user_by_email">>, <<"unlock", "users">>,
      <<"lock", "images">>, <<"mem", "push">>, <<"mem", "clone">>,
      <<"io", "save_images">>, <<"unlock", "images">>,
      <<"lock", "users">>, <<"mem", "push">>, <<"mem", "clone">>, <<"unlock", "users">>,
      <<"io", "save_users">>>>

\* finalize_upload with an owner
finalize_upload_steps ==
    <<<<"lock", "users">>, <<"mem", "find_user_by_email">>, <<"unlock", "users">>,
      <<"lock", "images">>, <<"mem", "push">>, <<"mem", "clone">>, <<"unlock", "images">>,
      <<"io", "save_images">>,
      <<"lock", "users">>, <<"mem", "push">>, <<"mem", "clone">>, <<"unlock", "users">>,
      <<"io", "save_users">>>>

\* upload_handler with one chunk of body
upload_handler_steps ==
    allow_rate_steps \o verify_upload_token_steps
        \o <<<<"io", "open">>, <<"io", "stream.next">>, <<"io", "write_all">>,
             <<"io", "stream.next">>>>
        \o finalize_upload_steps

\* api_upload_dashboard with one chunk of body
api_upload_dashboard_steps ==
    <<<<"io", "next_field">>, <<"io", "File::create">>, <<"io", "chunk">>,
      <<"io", "write_all">>, <<"io", "chunk">>,
      <<"lock", "images">>, <<"mem", "push">>, <<"mem", "clone">>, <<"unlock", "images">>,
      <<"io", "save_images">>,
      <<"lock", "users">>, <<"mem", "push">>, <<"mem", "clone">>, <<"unlock", "users">>,
      <<"io", "save_users">>>>

\* api_images_delete_by_filename
api_images_delete_by_filename_steps ==
    <<<<"io", "remove_file">>,
      <<"lock", "images">>, <<"mem", "retain">>, <<"mem", "clone">>, <<"unlock", "images">>,
      <<"io", "save_images">>,
      <<"lock", "users">>, <<"mem", "retain">>, <<"mem", "clone">>, <<"unlock", "users">>,
      <<"io", "save_users">>>>

\* api_images_delete_by_id when the object is owned
api_images_delete_by_id_steps ==
    <<<<"lock", "users">>, <<"mem", "remove">>, <<"mem", "clone">>, <<"unlock", "users">>,
      <<"io", "save_users">>, <<"io", "remove_file">>,
      <<"lock", "images">>, <<"mem", "retain">>, <<"mem", "clone">>, <<"unlock", "images">>,
      <<"io", "save_images">>>>

\* public_register when the account is created
public_register_steps ==
    <<<<"lock", "settings">>, <<"mem", "registerBlocked">>, <<"unlock", "settings">>,
      <<"lock", "users">>, <<"mem", "exists">>, <<"mem", "bcrypt::hash">>,
      <<"mem", "push">>, <<"mem", "clone">>, <<"unlock", "users">>,
      <<"io", "save_users">>>>

\* admin_register_set
admin_register_set_steps ==
    <<<<"lock", "settings">>, <<"mem", "set">>, <<"mem", "clone">>,
      <<"unlock", "settings">>, <<"io", "save_settings">>>>

LockedOps ==
    {"upload_handler", "api_upload_dashboard", "api_images_delete_by_filename",
     "api_images_delete_by_id", "public_register", "admin_register_set"}

handler_steps(op) ==
    IF op = "upload_handler" THEN upload_handler_steps
    ELSE IF op = "api_upload_dashboard" THEN api_upload_dashboard_steps
    ELSE IF op = "api_images_delete_by_filename" THEN api_images_delete_by_filename_steps
    ELSE IF op = "api_images_delete_by_id" THEN api_images_delete_by_id_steps
    ELSE IF op = "public_register" THEN public_register_steps
    ELSE IF op = "admin_register_set" THEN admin_register_set_steps
    ELSE <<>>

\* the step handler h is about to take (<<"end", "">> past the last one)
next_step(h) ==
    LET r == locks.run[h]
        steps == handler_steps(r.op)
    IN IF r.pos >= 1 /\ r.pos <= Len(steps) THEN steps[r.pos] ELSE <<"end", "">>

lockUnchanged ==
    <<users, images, settings, rate, upload_token_hash, initial_upload_token_plain,
      users_file, images_file, settings_file, upload_dir, clock, cookies, uuid_next,
      known, hs, sess, rate_log, get, boot, sanitized, cfg>>

\* the router hands a request to a free worker
HandlerStarts(h, op) ==
    /\ locks.run[h].op = "idle"
    /\ locks' = [locks EXCEPT !.run[h] = [op |-> op, pos |-> 1, waiting |-> FALSE]]
    /\ UNCHANGED lockUnchanged

\* Mutex::lock: the handler goes on once the mutex is free
Acquire(h) ==
    /\ ~locks.run[h].waiting
    /\ next_step(h)[1] = "lock"
    /\ locks.holder[next_step(h)[2]] = "free"
    /\ locks' = [locks EXCEPT !.holder[next_step(h)[2]] = h, !.run[h].pos = @ + 1]
    /\ UNCHANGED lockUnchanged

\* the guard is dropped
Release(h) ==
    /\ ~locks.run[h].waiting
    /\ next_step(h)[1] = "unlock"
    /\ locks' = [locks EXCEPT !.holder[next_step(h)[2]] = "free", !.run[h].pos = @ + 1]
    /\ UNCHANGED lockUnchanged

\* work in memory
Compute(h) ==
    /\ ~locks.run[h].waiting
    /\ next_step(h)[1] = "mem"
    /\ locks' = [locks EXCEPT !.run[h].pos = @ + 1]
    /\ UNCHANGED lockUnchanged

\* .await: the task is suspended until the I/O is done
Suspend(h) ==
    /\ ~locks.run[h].waiting
    /\ next_step(h)[1] = "io"
    /\ locks' = [locks EXCEPT !.run[h].waiting = TRUE]
    /\ UNCHANGED lockUnchanged

\* the I/O is done, the task is polled again
Resume(h) ==
    /\ locks.run[h].waiting
    /\ locks' = [locks EXCEPT !.run[h].waiting = FALSE, !.run[h].pos = @ + 1]
    /\ UNCHANGED lockUnchanged

\* the response is returned
Finish(h) ==
    /\ locks.run[h].op # "idle"
    /\ next_step(h)[1] = "end"
    /\ locks' = [locks EXCEPT !.run[h] = [op |-> "idle", pos |-> 0, waiting |-> FALSE]]
    /\ UNCHANGED lockUnchanged

NextLocks ==
    \/ \E h \in Handlers, op \in LockedOps : HandlerStarts(h, op)
    \/ \E h \in Handlers : Acquire(h)
    \/ \E h \in Handlers : Release(h)
    \/ \E h \in Handlers : Compute(h)
    \/ \E h \in Handlers : Suspend(h)
    \/ \E h \in Handlers : Resume(h)
    \/ \E h \in Handlers : Finish(h)

SpecLocks == Init /\ [][NextLocks]_vars

-----------------------------------------------------------------------------
(* The environment: what clients send.                                     *)

BOB == <<"b", "o", "b">>
EVE == <<"e", "v", "e">>
TooShortName == <<"b", "o">>
PaddedBob == <<" ", "b", "o", "b">>

\* three addresses that differ only in the case of a letter, the second
\* in an ASCII letter and the third in a letter outside ASCII
EmailLower == <<"a", E_ACUTE_LOWER, "@", "x", ".", "y">>
EmailAsciiUpper == <<"A", E_ACUTE_LOWER, "@", "x", ".", "y">>
EmailUnicodeUpper == <<"a", E_ACUTE_UPPER, "@", "x", ".", "y">>
EmailNoAt == <<"a", ".", "y">>

GoodPassword == "secret"
ShortPassword == "short"

WriteOutcomes == BOOLEAN

\* the sizes a client can announce and the bytes one read can deliver
BodySizes == 0..(MaxUploadBytes + 1)
ChunkSizes == 0..(MaxUploadBytes + 1)

\* names and ids a client can name in a delete: the published ones and one
\* that names nothing
Nameable == known \cup {0}

(* The object store: whole uploads and deletions by the administrator   *)
(* and by one account that the administrator creates and deletes.  Every  *)
(* body is one byte long and no read or write fails.                       *)
Next ==
    \/ \E h \in Handlers : HandlerReturn(h)
    \/ Login(ADMIN, ADMIN_PASSWORD)
    \/ Login(BOB, GoodPassword)
    \/ \E h \in Handlers, c \in CookieChoices :
           AdminCreate(h, c, BOB, EmailLower, GoodPassword)
    \/ \E h \in Handlers, c \in CookieChoices : AdminDelete(h, c, BOB)
    \/ \E h \in Handlers, c \in CookieChoices : DashStart(h, c, TRUE, 1)
    \/ \E h \in Handlers, n \in 0..1 : DashChunk(h, n, "none")
    \/ \E h \in Handlers : DashUsers(h)
    \/ \E h \in Handlers, e \in {<<>>, EmailUnicodeUpper} :
           RawStart(h, "unknown", FIRST_UPLOAD_TOKEN, e, 1)
    \/ \E h \in Handlers, n \in 0..1 : RawChunk(h, n, "none")
    \/ \E h \in Handlers : FinUsers(h)
    \/ \E h \in Handlers, c \in CookieChoices, id \in Nameable : DelIdStart(h, c, id)
    \/ \E h \in Handlers : DelIdRemove(h)
    \/ \E h \in Handlers : DelIdImages(h)
    \/ \E h \in Handlers, c \in CookieChoices, f \in Nameable : DelNameStart(h, c, f)
    \/ \E h \in Handlers : DelNameImages(h)
    \/ \E h \in Handlers : DelNameUsers(h)
    \/ \E h \in Handlers : SaveUsers(h, TRUE)
    \/ \E h \in Handlers : SaveImages(h, TRUE)

Spec == Init /\ [][Next]_vars

(* The two upload paths with bodies of every size around the cap, read in *)
(* pieces of every size, with reads and writes that can fail.              *)
NextUpload ==
    \/ \E h \in Handlers : HandlerReturn(h)
    \/ Login(ADMIN, ADMIN_PASSWORD)
    \/ \E h \in Handlers, c \in CookieChoices, f \in BOOLEAN, t \in BodySizes :
           DashStart(h, c, f, t)
    \/ \E h \in Handlers, n \in ChunkSizes, f \in ReadFaults : DashChunk(h, n, f)
    \/ \E h \in Handlers : DashUsers(h)
    \/ \E h \in Handlers, tok \in {FIRST_UPLOAD_TOKEN, "guess"},
          e \in {<<>>, ADMIN_EMAIL}, t \in BodySizes :
           RawStart(h, "unknown", tok, e, t)
    \/ \E h \in Handlers, n \in ChunkSizes, f \in ReadFaults : RawChunk(h, n, f)
    \/ \E h \in Handlers : FinUsers(h)
    \/ \E h \in Handlers, ok \in WriteOutcomes : SaveUsers(h, ok)
    \/ \E h \in Handlers, ok \in WriteOutcomes : SaveImages(h, ok)

SpecUpload == Init /\ [][NextUpload]_vars

(* The object server over the files raw uploads leave behind.              *)

\* URL segments: a stored name, a name that is not stored, the same name
\* through "." and through a file taken for a directory, names that climb
\* out of the upload directory, an absolute path
Segments ==
    {<<"1">>, <<"7">>, <<".", "%2F", "1">>, <<"1", "%2F", "..", "%2F", "1">>,
     <<"..", "%2F", "data", "%2F", "users.json">>, <<"%2E%2E", "%2F", ".env">>,
     <<"%2F", "etc", "%2F", "passwd">>}

\* what can stand on either side of the dash of a Range header
RangeNumbers ==
    {<<>>, <<"0">>, <<"1">>, <<"2">>, <<"3">>, <<"4">>, <<"+", "1">>, <<"x">>}

\* Range headers: bytes=s-e, a multi-range, one without dash, another unit
RangeHeaders ==
    {BYTES_EQ \o a \o <<"-">> \o b : a \in RangeNumbers, b \in RangeNumbers}
        \cup {BYTES_EQ \o <<"0", "-", "1", ",", "2", "-", "3">>,
              BYTES_EQ \o <<"2">>,
              <<"i", "t", "e", "m", "s", "=", "0", "-", "1">>}

Ranges == {None} \cup {Some(r) : r \in RangeHeaders}

NextServe ==
    \/ \E h \in Handlers : HandlerReturn(h)
    \/ \E h \in Handlers, t \in BodySizes :
           RawStart(h, "unknown", FIRST_UPLOAD_TOKEN, <<>>, t)
    \/ \E h \in Handlers, n \in ChunkSizes : RawChunk(h, n, "none")
    \/ \E h \in Handlers : SaveImages(h, TRUE)
    \/ \E seg \in Segments, r \in Ranges, checked \in BOOLEAN : ImageRaw(seg, r, checked)
    \/ \E seg \in Segments : ImageHead(seg)
    \/ \E seg \in Segments : ImageView(seg)
    \/ RetrievalReturn

SpecServe == Init /\ [][NextServe]_vars

(* The accounts: registration, creation by the administrator, e-mail      *)
(* updates.                                                                *)
RegisterNames == {BOB, EVE, PaddedBob, TooShortName}
RegisterEmails == {EmailLower, EmailAsciiUpper, EmailUnicodeUpper, EmailNoAt}
Passwords == {GoodPassword, ShortPassword}

\* serde_json values a client can send as "blocked"
BlockedValues ==
    {[t |-> "bool", b |-> TRUE, s |-> ""], [t |-> "bool", b |-> FALSE, s |-> ""],
     [t |-> "string", b |-> FALSE, s |-> "true"],
     [t |-> "string", b |-> FALSE, s |-> "yes"],
     [t |-> "string", b |-> FALSE, s |-> "True"],
     [t |-> "string", b |-> FALSE, s |-> ""],
     [t |-> "number", b |-> FALSE, s |-> "1"],
     [t |-> "null", b |-> FALSE, s |-> ""],
     [t |-> "array", b |-> FALSE, s |-> "[true]"],
     [t |-> "object", b |-> FALSE, s |-> "{}"]}

NextAccounts ==
    \/ \E h \in Handlers : HandlerReturn(h)
    \/ Login(ADMIN, ADMIN_PASSWORD)
    \/ Login(BOB, GoodPassword)
    \/ \E h \in Handlers, u \in RegisterNames, e \in RegisterEmails, p \in Passwords :
           RegisterStart(h, u, e, p)
    \/ \E h \in Handlers : RegisterUsers(h)
    \/ \E h \in Handlers, c \in CookieChoices, u \in {EVE, TooShortName},
          e \in {EmailLower, EmailAsciiUpper, EmailNoAt}, p \in Passwords :
           AdminCreate(h, c, u, e, p)
    \/ \E h \in Handlers, c \in CookieChoices, e \in {EmailUnicodeUpper, EmailNoAt} :
           UpdateEmail(h, c, e)
    \/ \E h \in Handlers : SaveUsers(h, TRUE)

SpecAccounts == Init /\ [][NextAccounts]_vars

-----------------------------------------------------------------------------
(* The accounts under every operation that touches them, with writes that  *)
(* can fail.                                                                *)

NewPassword == "secret2"
EvesEmail == <<"e", "@", "x", ".", "y">>

NextAdmin ==
    \/ \E h \in Handlers : HandlerReturn(h)
    \/ Login(ADMIN, ADMIN_PASSWORD)
    \/ Login(BOB, GoodPassword)
    \/ \E h \in Handlers : RegisterStart(h, BOB, EmailLower, GoodPassword)
    \/ \E h \in Handlers : RegisterUsers(h)
    \/ \E h \in Handlers, c \in CookieChoices :
           AdminCreate(h, c, EVE, EvesEmail, GoodPassword)
    \/ \E h \in Handlers, c \in CookieChoices, u \in {ADMIN, BOB} : AdminDelete(h, c, u)
    \/ \E h \in Handlers, c \in CookieChoices : UpdateEmail(h, c, EmailUnicodeUpper)
    \/ \E h \in Handlers, c \in CookieChoices :
           SettingsStart(h, c, GoodPassword, NewPassword)
    \/ \E h \in Handlers : SettingsPassword(h)
    \/ \E h \in Handlers, ok \in WriteOutcomes : SaveUsers(h, ok)

SpecAdmin == Init /\ [][NextAdmin]_vars

-----------------------------------------------------------------------------
(* The administrative operations, from either collection of accounts that  *)
(* load_all can leave in memory: the bootstrap admin (users.json was       *)
(* missing) or no account at all (users.json was malformed or held none).  *)

InitRoles ==
    /\ users \in {bootstrap_users(ADMIN_PASSWORD), <<>>}
    /\ images = <<>>
    /\ settings = DefaultSettings
    /\ rate = EmptyMap
    /\ upload_token_hash = bcrypt_hash(FIRST_UPLOAD_TOKEN)
    /\ initial_upload_token_plain = Some(FIRST_UPLOAD_TOKEN)
    /\ users_file = users
    /\ images_file = images
    /\ settings_file = settings
    /\ upload_dir = EmptyMap
    /\ clock = ClockMin
    /\ cookies = {}
    /\ uuid_next = 1
    /\ known = {}
    /\ get = NoGet
    /\ boot = Serving
    /\ locks = AllFree
    /\ sanitized = NoName
    /\ hs = [h \in Handlers |-> Idle]
    /\ sess = NoSess
    /\ rate_log = EmptyMap
    /\ cfg = DefaultCfg

AdminsEmail == <<"r", "@", "x", ".", "y">>

NextRoles ==
    \/ \E h \in Handlers : HandlerReturn(h)
    \/ \E p \in {ADMIN_PASSWORD, GoodPassword} : Login(ADMIN, p)
    \/ Login(BOB, GoodPassword)
    \/ \E h \in Handlers : RegisterStart(h, ADMIN, AdminsEmail, GoodPassword)
    \/ \E h \in Handlers : RegisterStart(h, BOB, EmailLower, GoodPassword)
    \/ \E h \in Handlers : RegisterUsers(h)
    \/ \E h \in Handlers, c \in CookieChoices : AdminUsersList(h, c)
    \/ \E h \in Handlers, c \in CookieChoices :
           AdminCreate(h, c, EVE, EvesEmail, GoodPassword)
    \/ \E h \in Handlers, c \in CookieChoices : AdminDelete(h, c, BOB)
    \/ \E h \in Handlers, c \in CookieChoices : AdminRegisterGet(h, c)
    \/ \E h \in Handlers, c \in CookieChoices, v \in BlockedValues : RegisterSet(h, c, v)
    \/ \E h \in Handlers : SaveUsers(h, TRUE)
    \/ \E h \in Handlers : SaveSettings(h, TRUE)

SpecRoles == InitRoles /\ [][NextRoles]_vars

-----------------------------------------------------------------------------
(* Session cookies while the accounts change and the clock moves.          *)

\* cookies the clients hold at most
MaxCookies == 2

\* clock readings: the start, the last one at which a cookie of the start
\* is still good, the first at which it is not
TokenClocks ==
    {ClockMin, ClockMin + SESSION_MAX_AGE_MS, ClockMin + SESSION_MAX_AGE_MS + 1}

NextTokens ==
    \/ \E h \in Handlers : HandlerReturn(h)
    \/ \E t \in TokenClocks : SessSetClock(t)
    \/ Cardinality(cookies) < MaxCookies /\ Login(ADMIN, ADMIN_PASSWORD)
    \/ Cardinality(cookies) < MaxCookies
           /\ \E p \in {GoodPassword, NewPassword} : Login(BOB, p)
    \/ \E h \in Handlers : Logout(h)
    \/ \E h \in Handlers : RegisterStart(h, BOB, EmailLower, GoodPassword)
    \/ \E h \in Handlers : RegisterUsers(h)
    \/ \E h \in Handlers, c \in CookieChoices : AdminDelete(h, c, BOB)
    \/ \E h \in Handlers, c \in CookieChoices :
           SettingsStart(h, c, GoodPassword, NewPassword)
    \/ \E h \in Handlers : SettingsPassword(h)
    \/ \E h \in Handlers : SaveUsers(h, TRUE)

SpecTokens == Init /\ [][NextTokens]_vars

-----------------------------------------------------------------------------
(* Claims about the object store and the accounts.                         *)

\* how many objects of a collection carry that id
CountId(imgs, id) == Cardinality({i \in 1..Len(imgs) : imgs[i].id = id})

\* the owned list of the account of that username, empty when there is none
OwnedBy(us, u) == IF find_user(us, u) = 0 THEN <<>> ELSE us[find_user(us, u)].images

\* no collection holds metadata for that file
NoMetadata(imgs, us, file) ==
    /\ \A i \in 1..Len(imgs) : imgs[i].filename # file
    /\ \A k \in 1..Len(us) : \A j \in 1..Len(us[k].images) : us[k].images[j].filename # file

Quiescent == \A h \in Handlers : hs[h].pc = "idle"

\* C1: when a dashboard upload authenticated as account u attaches its
\* object, the object is exactly once in the global collection and exactly
\* once in u's owned list, the two copies being the same record; when a
\* delete-by-id of u has gone through, no object of that id is left in the
\* global collection or in u's owned list and the file is gone.
C1_UploadThenDeleteById ==
    [][\A h \in Handlers :
          /\ DashUsers(h) =>
                /\ CountId(images', hs[h].id) = 1
                /\ CountId(OwnedBy(users', hs[h].actor), hs[h].id) = 1
                /\ \A i \in 1..Len(images') :
                       images'[i].id = hs[h].id =>
                           \E j \in 1..Len(OwnedBy(users', hs[h].actor)) :
                               OwnedBy(users', hs[h].actor)[j] = images'[i]
          /\ (SaveImages(h, TRUE) /\ hs[h].op = "api_images_delete_by_id") =>
                /\ CountId(images', hs[h].id) = 0
                /\ CountId(OwnedBy(users', hs[h].actor), hs[h].id) = 0
                /\ hs[h].file \notin DOMAIN upload_dir']_vars

\* C2: whenever no handler is in flight, an object with owner u is in the
\* global collection if and only if an object of the same id is in the
\* owned list of account u.
C2_ViewsAgreeWhenQuiescent ==
    Quiescent =>
        \A u \in {ADMIN, BOB}, id \in 1..MaxUploads :
            (\E i \in 1..Len(images) : images[i].id = id /\ images[i].owner = Some(u))
                <=> CountId(OwnedBy(users, u), id) > 0

\* C3: no two accounts share a username and no two accounts share an
\* e-mail address up to the case of its letters.
C3_OneAccountPerNameAndEmail ==
    \A i, j \in 1..Len(users) :
        i # j => /\ users[i].username # users[j].username
                 /\ to_lowercase(users[i].email) # to_lowercase(users[j].email)

\* C4: a registration that reaches the accounts with the username of an
\* existing account, or with the e-mail address of one up to the case of
\* its letters, is answered 409, changes no account and writes no file.
C4_DuplicateIsConflict ==
    [][\A h \in Handlers :
          (/\ RegisterUsers(h)
           /\ \E i \in 1..Len(users) :
                  \/ users[i].username = hs[h].name
                  \/ to_lowercase(users[i].email) = to_lowercase(hs[h].email))
          => /\ hs'[h].pc = "done" /\ hs'[h].resp = "409"
             /\ users' = users
             /\ users_file' = users_file]_vars

\* C5: on both upload paths a read that takes the running byte count over
\* the cap is answered 413 with the file removed and no metadata kept, and
\* a body of exactly the cap's size is read to its end and accepted.
C5_CapEnforcedOnBothPaths ==
    [][\A h \in Handlers, n \in ChunkSizes :
          (RawChunk(h, n, "none") \/ DashChunk(h, n, "none")) =>
              /\ (hs[h].left > 0 /\ hs[h].size + n > cfg.max_upload_bytes) =>
                     /\ hs'[h].pc = "done" /\ hs'[h].resp = "413"
                     /\ hs[h].file \notin DOMAIN upload_dir'
                     /\ NoMetadata(images', users', hs[h].file)
              /\ (hs[h].left = n /\ hs[h].size + n = cfg.max_upload_bytes) =>
                     hs'[h].pc # "done"]_vars

\* C6: an upload that ends in failure after its file was created leaves
\* neither the file nor metadata for it.
C6_FailedUploadLeavesNothing ==
    \A h \in Handlers :
        (/\ hs[h].pc = "done"
         /\ hs[h].op \in {"upload_handler", "api_upload_dashboard"}
         /\ hs[h].resp # "200"
         /\ hs[h].file # 0)
        => /\ hs[h].file \notin DOMAIN upload_dir
           /\ NoMetadata(images, users, hs[h].file)

-----------------------------------------------------------------------------
(* The object server: ranges, full retrievals, containment.                *)

\* the header "Range: bytes=s-e" of a client that writes both numbers
range_header(s, e) == Some(BYTES_EQ \o to_string(s) \o <<"-">> \o to_string(e))

RangeEnds == 0..(MaxUploadBytes + 1)

\* the bytes of a stored object from offset a to offset b, both included
bytes_between(a, b) == [i \in 1..(b - a + 1) |-> a + i - 1]

\* C12: a GET of a stored object of length L >= 1 with "Range: bytes=s-e"
\* and s <= min(e, L-1) is answered 206 with "Content-Range: bytes
\* s-min(e,L-1)/L" and a body of exactly min(e,L-1) - s + 1 bytes, the
\* ones from offset s on.
C12_SatisfiableRangeIsServed ==
    [][\A n \in DOMAIN upload_dir, s \in RangeEnds, e \in RangeEnds, checked \in BOOLEAN :
          LET L == upload_dir[n]
              last_byte == Min(e, L - 1)
          IN (/\ L >= 1 /\ s <= last_byte
              /\ get = NoGet /\ get'.range = range_header(s, e)
              /\ ImageRaw(<<stored_name(n)>>, range_header(s, e), checked))
             => /\ get'.resp.status = "206"
                /\ get'.resp.content_range = content_range(s, last_byte, L)
                /\ Len(get'.resp.body) = last_byte - s + 1
                /\ get'.resp.body = bytes_between(s, last_byte)]_vars

C12_Witness ==
    /\ get.method = "GET" /\ get.segment = <<"1">>
    /\ get.range = range_header(1, 4)
    /\ 1 \in DOMAIN upload_dir /\ upload_dir[1] = 3
    /\ get.resp.status = "206"
    /\ get.resp.content_range = <<"b", "y", "t", "e", "s", " ", "1", "-", "2", "/", "3">>
    /\ get.resp.body = <<1, 2>>

\* C13: a GET of a stored object of length L with "Range: bytes=s-e" is
\* answered 416 exactly when s exceeds the end clamped to L - 1, and is
\* never answered 206 when it does.
C13_UnsatisfiableExactlyWhenStartPastEnd ==
    [][\A n \in DOMAIN upload_dir, s \in RangeEnds, e \in RangeEnds, checked \in BOOLEAN :
          LET L == upload_dir[n]
              last_byte == Min(e, L - 1)
          IN (/\ get = NoGet /\ get'.range = range_header(s, e)
              /\ ImageRaw(<<stored_name(n)>>, range_header(s, e), checked))
             => /\ get'.resp.status = "416" <=> s > last_byte
                /\ get'.resp.status = "206" => s <= last_byte]_vars

\* C14: a GET of an existing object of length L without a Range header is
\* answered 200 with Content-Length L, Accept-Ranges bytes, the immutable
\* cache directive and all L bytes.
C14_FullRetrieval ==
    [][\A n \in DOMAIN upload_dir, checked \in BOOLEAN :
          LET L == upload_dir[n]
          IN (/\ get = NoGet /\ get'.range = None
              /\ ImageRaw(<<stored_name(n)>>, None, checked))
             => /\ get'.resp.status = "200"
                /\ get'.resp.content_length = L
                /\ get'.resp.accept_ranges = "bytes"
                /\ get'.resp.cache_control = "public, max-age=31536000, immutable"
                /\ get'.resp.body = bytes_between(0, L - 1)]_vars

C14_Witness ==
    /\ get.method = "GET" /\ get.segment = <<"1">> /\ get.range = None
    /\ 1 \in DOMAIN upload_dir /\ upload_dir[1] = 3
    /\ get.resp.status = "200" /\ get.resp.content_length = 3
    /\ get.resp.body = <<0, 1, 2>>

\* a resolved path that lies inside the upload directory
inside_upload_dir(path) ==
    Len(path) > Len(UPLOAD_DIR) /\ SubSeq(path, 1, Len(UPLOAD_DIR)) = UPLOAD_DIR

\* C15: whatever name is requested, GET, HEAD and view answer from a file
\* whose resolved path lies inside the upload directory, and answer
\* not-found for a name that resolves outside it or to no file.
C15_OnlyFilesInsideUploadDir ==
    get.method # ""
        => LET at == resolve(path_join(UPLOAD_DIR, percent_decode(get.segment)))
           IN /\ get.resp.status # "404" => inside_upload_dir(get.resp.read)
              /\ (~at.some \/ ~inside_upload_dir(at.val)) => get.resp.status = "404"

-----------------------------------------------------------------------------
(* The accounts: the admin, failed writes, overlapping writes.             *)

AdminAccounts(us) == {i \in 1..Len(us) : us[i].role = "admin"}

\* the username and the role of every account, in order
identities(us) == [i \in 1..Len(us) |-> <<us[i].username, us[i].role>>]

\* C16: from bootstrap on exactly one account has the role admin; a delete
\* that names it is rejected and leaves the accounts as they were; no step
\* adds a second admin or changes the username or the role of an account
\* (a step leaves the identities alone, appends one of role user, or drops
\* the accounts of one username, never the admin's).
C16_ExactlyOneAdmin ==
    /\ [](Cardinality(AdminAccounts(users)) = 1)
    /\ [][/\ \A h \in Handlers, c \in CookieChoices :
                 AdminDelete(h, c, ADMIN)
                     => users' = users /\ hs'[h].pc = "done" /\ hs'[h].resp # "200"
          /\ \/ identities(users') = identities(users)
             \/ /\ Len(users') = Len(users) + 1
                /\ SubSeq(identities(users'), 1, Len(users)) = identities(users)
                /\ users'[Len(users')].role = "user"
             \/ \E name \in {BOB, EVE} :
                    identities(users') = identities(retain_other_users(users, name))]_vars

\* the admin asked for the deletion of the admin account and was refused,
\* while other accounts exist
C16_Witness ==
    /\ \E h \in Handlers : /\ hs[h].op = "admin_users_delete" /\ hs[h].pc = "done"
                           /\ hs[h].actor = ADMIN /\ hs[h].resp = "400"
    /\ Len(users) = 3
    /\ Cardinality(AdminAccounts(users)) = 1

\* C17: when an admin's deletion of account u completes, u is not among
\* the accounts it left, no object owned by u is left in the global collection,
\* and no file of such an object is left in the upload directory.
C17_AdminDeleteCascades ==
    [][\A h \in Handlers :
          (/\ hs[h].op = "admin_users_delete" /\ hs[h].pc = "save_users"
           /\ hs'[h].pc = "done" /\ hs'[h].resp = "200")
          => /\ find_user(hs[h].snap, hs[h].name) = 0
             /\ \A i \in 1..Len(images') : images'[i].owner # Some(hs[h].name)
             /\ \A i \in 1..Len(images) :
                    images[i].owner = Some(hs[h].name)
                        => images[i].filename \notin DOMAIN upload_dir']_vars

\* C18: when the write that follows a mutation of the accounts fails (the
\* file keeps what it held, not the snapshot), the operation does not
\* answer success; the accounts in memory are left as mutated.
C18_FailedWriteIsReported ==
    [][\A h \in Handlers :
          (/\ SaveUsers(h, FALSE) /\ hs[h].snap # users_file)
          => /\ hs'[h].pc = "done" => hs'[h].resp # "200"
             /\ users' = users]_vars

\* C19: a handler that mutates the accounts clones them under the lock
\* and its write puts exactly that snapshot in the file, whatever the
\* accounts are by then; so the write that completes last wins (the
\* witness is a quiescent state whose file lacks the newest account).
C19_EachWritesItsOwnSnapshot ==
    [][\A h \in Handlers :
          /\ (hs[h].pc # "save_users" /\ hs'[h].pc = "save_users")
                => hs'[h].snap = users'
          /\ (hs[h].pc = "save_users" /\ hs'[h].pc # "save_users")
                => users_file' = hs[h].snap]_vars

\* no request in flight, no write has failed, and the file holds the
\* accounts without the one accepted last
C19_Witness ==
    /\ Quiescent
    /\ Len(users) = 3
    /\ users_file = SubSeq(users, 1, 2)

-----------------------------------------------------------------------------
(* Startup.                                                                 *)

NotUsable == {"missing"} \cup Malformed

-----------------------------------------------------------------------------
(* Roles and sessions.                                                      *)

AdminOps ==
    {"admin_users_list", "admin_users_create", "admin_users_delete",
     "admin_register_get", "admin_register_set"}

\* C21: an administrative request whose valid session belongs to an account
\* of role user is answered 403 and changes no collection.
C21_AdminOpsNeedAdminRole ==
    [][\A h \in Handlers :
          (/\ hs[h].pc = "idle" /\ hs'[h].op \in AdminOps
           /\ find_user(users, hs'[h].actor) # 0
           /\ users[find_user(users, hs'[h].actor)].role = "user")
          => /\ hs'[h].pc = "done" /\ hs'[h].resp = "403"
             /\ UNCHANGED <<users, images, settings>>]_vars

\* C22: a cookie issued for u at ts verifies as u exactly while the clock
\* is at most the maximum age past ts, whatever has happened to u's account
\* (password changed, logged out, deleted, registered again) since.
C22_TokenValidityIgnoresTheStore ==
    \A u \in {ADMIN, BOB}, ts \in ClockMin..ClockMax :
        sign_session(session_secret, u, ts) \in cookies
            => check_auth(sign_session(session_secret, u, ts))
                   = IF saturating_sub(clock, ts) > SESSION_MAX_AGE_MS THEN None
                     ELSE Some(u)

\* bob's account is gone and a request with bob's cookie was still taken
\* as bob's: api_settings went looking for the account (404, not 401)
C22_Witness ==
    /\ find_user(users, BOB) = 0
    /\ \E h \in Handlers : /\ hs[h].op = "api_settings" /\ hs[h].pc = "done"
                           /\ hs[h].actor = BOB /\ hs[h].resp = "404"
    /\ \E ts \in ClockMin..ClockMax :
           /\ sign_session(session_secret, BOB, ts) \in cookies
           /\ check_auth(sign_session(session_secret, BOB, ts)) = Some(BOB)

-----------------------------------------------------------------------------
(* Raw uploads: the gate, the cap, the owner.                               *)

RawTokens == {FIRST_UPLOAD_TOKEN, "guess"}
RawEmails == {<<>>, ADMIN_EMAIL}

\* C23: a raw upload goes on to create its file only if the rate limiter
\* allowed it and its bearer token was then accepted; the rate check is
\* first, so an allowed request with a bad token has cost one token of the
\* bucket; a rejected request (429 or 401) leaves the files and both
\* collections as they were.
C23_RateThenToken ==
    [][\A h \in Handlers, tok \in RawTokens, e \in RawEmails, t \in BodySizes :
          (/\ hs[h].pc = "idle" /\ hs'[h].op = "upload_handler"
           /\ RawStart(h, "unknown", tok, e, t))
          => LET allowed == allow_rate(rate, "unknown", clock)
                 accepted == verify_upload_token(tok)
                 before == rate_refilled(rate_bucket(rate, "unknown", clock), clock)
             IN /\ (hs'[h].pc # "done" \/ upload_dir' # upload_dir)
                      => allowed /\ accepted
                /\ ~allowed => hs'[h].pc = "done" /\ hs'[h].resp = "429"
                /\ (allowed /\ ~accepted)
                      => /\ hs'[h].pc = "done" /\ hs'[h].resp = "401"
                         /\ "unknown" \in DOMAIN rate'
                         /\ rate'["unknown"].tokens = before - TokenScale
                /\ hs'[h].pc = "done"
                      => UNCHANGED <<upload_dir, images, users, images_file, users_file>>]_vars

\* a request with a wrong token was turned away after it had used up the
\* bucket's last token, and nothing was stored
C23_Witness ==
    /\ \E h \in Handlers : /\ hs[h].op = "upload_handler" /\ hs[h].pc = "done"
                           /\ hs[h].resp = "401"
    /\ "unknown" \in DOMAIN rate /\ rate["unknown"].tokens = 0
    /\ upload_dir = EmptyMap /\ images = <<>> /\ uuid_next = 1

-----------------------------------------------------------------------------
(* sanitize_filename on its own: every header of up to MaxNameLen          *)
(* characters over letters, a digit, the three punctuation marks that are  *)
(* kept, a slash, a space, a backslash and a letter outside ASCII.         *)

MaxNameLen == 3

NameChars == {"a", "Z", "7", ".", "-", "_", "/", " ", "\\", E_ACUTE_LOWER}

NameHeaders == UNION {[1..n -> NameChars] : n \in 0..MaxNameLen}

InitNames ==
    /\ InitState /\ cfg = DefaultCfg
    /\ sanitized \in {[NoName EXCEPT !.filename_header = s] : s \in NameHeaders}

\* let safe = sanitize_filename(&filename_header), and the same function
\* applied once more to what it returned
SanitizeFilename ==
    /\ sanitized.calls < 2
    /\ sanitized' =
          IF sanitized.calls = 0
          THEN [sanitized EXCEPT !.safe = sanitize_filename(sanitized.filename_header),
                                 !.calls = 1]
          ELSE [sanitized EXCEPT !.again = sanitize_filename(sanitized.safe),
                                 !.calls = 2]
    /\ UNCHANGED <<users, images, settings, rate, upload_token_hash,
                   initial_upload_token_plain, users_file, images_file, settings_file,
                   upload_dir, clock, cookies, uuid_next, known, hs, sess, rate_log,
                   get, boot, locks, cfg>>

NextNames == SanitizeFilename

SpecNames == InitNames /\ [][NextNames]_vars

-----------------------------------------------------------------------------
(* Settings requests of the administrator with every combination of the    *)
(* three body fields.                                                      *)

WrongPassword == "notthis"
SecondToken == "b2c3d4e5f6a7"
ShortToken == "tok"

CurrentPasswords == {None, Some(ADMIN_PASSWORD), Some(NewPassword), Some(WrongPassword)}
NewPasswords == {None, Some(NewPassword), Some(ShortPassword)}
NewUploadTokens == {None, Some(SecondToken), Some(ShortToken)}

NextSettings ==
    \/ \E h \in Handlers : HandlerReturn(h)
    \/ Login(ADMIN, ADMIN_PASSWORD)
    \/ \E h \in Handlers, c \in CookieChoices, cur \in CurrentPasswords,
          newp \in NewPasswords, tok \in NewUploadTokens :
           ApiSettings(h, c, cur, newp, tok)
    \/ \E h \in Handlers : SettingsPassword(h)
    \/ \E h \in Handlers : SaveUsers(h, TRUE)
    \/ \E h \in Handlers : SettingsTokenCheck(h)
    \/ \E h \in Handlers : SettingsTokenHash(h)
    \/ \E h \in Handlers : SettingsTokenPlain(h)

SpecSettings == Init /\ [][NextSettings]_vars

-----------------------------------------------------------------------------
(* The upload token: changes through the settings and generation for the   *)
(* ShareX profile.  The server runs its first start (the plain token is    *)
(* cached) or a later one (only the hash was read from .env).              *)

ThirdToken == "e5f6a7b8c9d0"

InitTokenChange ==
    /\ users = <<User(ADMIN, bcrypt_hash(ADMIN_PASSWORD), ADMIN_EMAIL, "admin")>>
    /\ images = <<>>
    /\ settings = [registerBlocked |-> FALSE]
    /\ rate = EmptyMap
    /\ upload_token_hash = bcrypt_hash(FIRST_UPLOAD_TOKEN)
    /\ initial_upload_token_plain \in {Some(FIRST_UPLOAD_TOKEN), None}
    /\ users_file = users
    /\ images_file = images
    /\ settings_file = settings
    /\ upload_dir = EmptyMap
    /\ clock = ClockMin
    /\ cookies = {}
    /\ uuid_next = 1
    /\ known = {}
    /\ get = NoGet
    /\ boot = Serving
    /\ locks = AllFree
    /\ sanitized = NoName
    /\ hs = [h \in Handlers |-> Idle]
    /\ sess = NoSess
    /\ rate_log = EmptyMap
    /\ cfg = DefaultCfg

NextTokenChange ==
    \/ \E h \in Handlers : HandlerReturn(h)
    \/ Login(ADMIN, ADMIN_PASSWORD)
    \/ \E h \in Handlers, c \in CookieChoices, tok \in {SecondToken, ThirdToken} :
           ApiSettings(h, c, Some(ADMIN_PASSWORD), None, Some(tok))
    \/ \E h \in Handlers : SettingsTokenHash(h)
    \/ \E h \in Handlers : SettingsTokenPlain(h)
    \/ \E h \in Handlers, c \in CookieChoices : GenerateSxcu(h, c)
    \/ \E h \in Handlers : SxcuHash(h)
    \/ \E h \in Handlers : SxcuPlain(h)

SpecTokenChange == InitTokenChange /\ [][NextTokenChange]_vars

-----------------------------------------------------------------------------
(* Locks and the order of the two collections.                             *)

CollectionLocks == {"users", "images", "settings", "rate"}

\* C24: no handler that is suspended in a disk or network I/O step holds the
\* lock of the accounts, of the objects, of the settings or of the rate map.
C24_NoLockHeldAcrossIo ==
    \A h \in Handlers :
        locks.run[h].waiting => \A l \in CollectionLocks : locks.holder[l] # h

\* one handler waits for its write of images.json while the other holds
\* the objects lock
C24_Witness ==
    /\ locks.run["h1"].op = "upload_handler" /\ locks.run["h1"].waiting
    /\ finalize_upload_steps[8] = <<"io", "save_images">>
    /\ locks.run["h1"].pos = Len(upload_handler_steps) - Len(finalize_upload_steps) + 8
    /\ locks.holder["images"] = "h2"

ObjectInserts == {"upload_handler", "api_upload_dashboard"}

ObjectDeletes == {"api_images_delete_by_id", "api_images_delete_by_filename"}

\* the global collection holds a record of the object handler record r is about
in_global(r) ==
    \E i \in 1..Len(images) :
        IF r.op = "api_images_delete_by_filename"
        THEN images[i].filename = r.file
        ELSE images[i].id = r.id

\* C25: whenever a step of an operation that inserts or deletes an object
\* changes an owned list in the accounts collection, the global object
\* collection has already been changed by that operation: it holds the
\* object of an insert and no longer holds the object of a delete.
C25_GlobalCollectionFirst ==
    [][\A h \in Handlers :
          (users' # users /\ hs'[h] # hs[h]
             /\ hs'[h].op \in ObjectInserts \cup ObjectDeletes)
          => (in_global(hs'[h]) <=> hs'[h].op \in ObjectInserts)]_vars

-----------------------------------------------------------------------------
(* The rate limiter at any clock readings.                                 *)

\* the bucket of client ip before a check at the current clock reading
bucket_before(ip) ==
    IF ip \in DOMAIN rate THEN rate[ip]
    ELSE [tokens |-> cfg.rate_tokens, last |-> clock]

\* what a check may add: elapsed * refill, nothing for a clock that went back
refill_due(ip) ==
    IF clock > bucket_before(ip).last
    THEN (clock - bucket_before(ip).last) * cfg.rate_refill
    ELSE 0

capped(t) == IF t > cfg.rate_tokens THEN cfg.rate_tokens ELSE t

\* C26: every bucket always holds between 0 and capacity tokens, whatever
\* the clock readings of the checks (the clock may go backwards), and a
\* check changes the tokens of its client's bucket only by adding
\* elapsed * refill_rate, capped at capacity, and by taking 1 token when it
\* allows; the other buckets are left alone.
C26_TokensStayWithinBounds ==
    /\ [](\A ip \in DOMAIN rate :
            rate[ip].tokens >= 0 /\ rate[ip].tokens <= cfg.rate_tokens)
    /\ [][\A ip \in RateClients :
            IF ip \in DOMAIN rate_log' /\
               (ip \notin DOMAIN rate_log \/ rate_log'[ip].n # rate_log[ip].n)
            THEN /\ ip \in DOMAIN rate'
                 /\ rate'[ip].tokens =
                      IF capped(bucket_before(ip).tokens + refill_due(ip)) >= TokenScale
                      THEN capped(bucket_before(ip).tokens + refill_due(ip)) - TokenScale
                      ELSE capped(bucket_before(ip).tokens + refill_due(ip))
            ELSE ip \in DOMAIN rate =>
                    ip \in DOMAIN rate' /\ rate'[ip].tokens = rate[ip].tokens]_vars

\* a used-up bucket was checked at a clock reading earlier than its last one
C26_Witness ==
    \E ip \in DOMAIN rate :
        /\ ip \in DOMAIN rate_log /\ ~rate_log[ip].mono
        /\ rate[ip].tokens < TokenScale
        /\ rate[ip].last = clock

-----------------------------------------------------------------------------
(* The size cap.                                                           *)

\* C27: at every moment of every upload, on both paths and whatever the
\* size of the body and of its chunks, the destination file holds at most
\* max_upload_bytes bytes, and it holds exactly the bytes counted so far:
\* the chunk that takes the count over the cap is not written.
C27_WrittenBytesWithinCap ==
    /\ \A f \in DOMAIN upload_dir : upload_dir[f] <= cfg.max_upload_bytes
    /\ \A h \in Handlers :
          hs[h].pc \in {"raw_chunk", "dash_chunk"} =>
              /\ hs[h].size <= cfg.max_upload_bytes
              /\ hs[h].file \in DOMAIN upload_dir => upload_dir[hs[h].file] = hs[h].size

\* an upload was aborted at the chunk that took the count over the cap, and
\* its file is gone
C27_Witness ==
    \E h \in Handlers :
        /\ hs[h].pc = "done" /\ hs[h].op = "upload_handler"
        /\ hs[h].cause = "cap" /\ hs[h].resp = "413"
        /\ hs[h].file \notin DOMAIN upload_dir

-----------------------------------------------------------------------------
(* The owner of an uploaded object.                                        *)

\* the accounts whose email equals the header ignoring case
matching_accounts(email_hdr) ==
    {k \in 1..Len(users) :
        Len(email_hdr) > 0 /\ to_lowercase(users[k].email) = to_lowercase(email_hdr)}

\* the owned lists of all accounts, by username
owned_lists(us) == {<<us[k].username, us[k].images>> : k \in 1..Len(us)}

\* C28: a raw upload that reaches its end resolves as owner an account whose
\* email equals the header ignoring case, or no owner when none matches or
\* the header is empty, and puts the object into the global collection; with
\* an owner, its step on the accounts adds the object to that account's
\* owned list; without one, it answers without any owned list changing.  A
\* dashboard upload puts the object into the global collection with the
\* session's username as owner.
C28_OwnerOfAnUpload ==
    [][\A h \in Handlers :
          /\ (hs[h].pc = "raw_chunk" /\ hs'[h].pc = "save_images") =>
                /\ IF matching_accounts(hs[h].email) = {}
                   THEN ~hs'[h].owner.some
                   ELSE /\ hs'[h].owner.some
                        /\ \E k \in matching_accounts(hs[h].email) :
                              users[k].username = hs'[h].owner.val
                /\ images' = Append(images, ImageMeta(hs[h].id, hs[h].file, hs[h].size,
                                                      hs'[h].owner))
          /\ (hs[h].op = "upload_handler" /\ hs[h].pc = "fin_users"
                /\ hs'[h].pc = "save_users") =>
                \E k \in 1..Len(users') :
                    /\ users'[k].username = hs[h].owner.val
                    /\ \E j \in 1..Len(users'[k].images) :
                          users'[k].images[j].id = hs[h].id
          /\ (hs[h].op = "upload_handler" /\ hs[h].pc = "save_images"
                /\ ~hs[h].owner.some /\ hs'[h] # hs[h]) =>
                (hs'[h].pc = "done" /\ owned_lists(users') = owned_lists(users))
          /\ (hs[h].pc = "dash_chunk" /\ hs'[h].pc = "save_images") =>
                /\ hs[h].owner = Some(hs[h].actor)
                /\ images' = Append(images, ImageMeta(hs[h].id, hs[h].file, hs[h].size,
                                                      Some(hs[h].actor)))]_vars

-----------------------------------------------------------------------------
(* The registration lock.                                                  *)

\* the two inputs that mean true
MeansTrue ==
    {[t |-> "bool", b |-> TRUE, s |-> ""], [t |-> "string", b |-> FALSE, s |-> "true"]}

\* C29: when the admin's toggle is accepted, registerBlocked becomes true
\* exactly for the boolean true and the string "true" and false for every
\* other value; that value is in the settings in memory and in the snapshot,
\* and the snapshot is what the write puts into settings.json.
C29_ToggleDecodesAndStores ==
    [][\A h \in Handlers :
          /\ \A c \in CookieChoices, v \in BlockedValues :
                (hs[h].pc = "idle" /\ hs'[h].pc = "save_settings" /\ RegisterSet(h, c, v))
                => /\ settings'.registerBlocked = (v \in MeansTrue)
                   /\ hs'[h].snap = settings'
          /\ (hs[h].pc = "save_settings" /\ hs'[h].pc = "done")
                => (settings_file' = hs[h].snap /\ hs'[h].resp = "200")]_vars

\* the lock was switched on and written, and a toggle with a value that
\* does not mean true has switched it off in memory
C29_Witness ==
    /\ settings_file.registerBlocked
    /\ ~settings.registerBlocked
    /\ \E h \in Handlers :
          hs[h].op = "admin_register_set" /\ hs[h].pc = "save_settings"

-----------------------------------------------------------------------------
(* File names.                                                             *)

\* the characters of [A-Za-z0-9._-] among NameChars
KeptChars == {"a", "Z", "7", ".", "-", "_"}

\* C30: the sanitized name is never empty; for an empty header it is "file",
\* otherwise it has as many characters as the header, each character of
\* [A-Za-z0-9._-] kept and every other one replaced by "_"; sanitizing the
\* sanitized name returns it unchanged.
C30_SanitizedName ==
    LET s == sanitized.filename_header
        safe == sanitized.safe
    IN /\ sanitized.calls >= 1 =>
             /\ Len(safe) > 0
             /\ IF Len(s) = 0 THEN safe = <<"f", "i", "l", "e">>
                ELSE /\ Len(safe) = Len(s)
                     /\ \A i \in 1..Len(s) :
                           safe[i] = IF s[i] \in KeptChars THEN s[i] ELSE "_"
       /\ sanitized.calls = 2 => sanitized.again = safe

\* a header with a kept character, a slash and a letter outside ASCII was
\* sanitized twice
C30_Witness ==
    /\ sanitized.calls = 2
    /\ sanitized.filename_header = <<"/", E_ACUTE_LOWER, "a">>
    /\ sanitized.safe = <<"_", "_", "a">>

-----------------------------------------------------------------------------
(* HEAD against GET.                                                       *)

\* C31: whenever HEAD /i/:filename is answered, the answer carries what GET
\* without Range would carry for the same segment in the same state: for an
\* object that GET serves, status 200 with the same Content-Length (the
\* file's length), Accept-Ranges and Cache-Control (the immutable directive)
\* and an empty body; for a path that does not exist, 404 like GET.
C31_HeadCarriesTheHeadersOfGet ==
    [][(get = NoGet /\ get'.method = "HEAD") =>
          LET full == image_raw(get'.segment, None, TRUE)
              head == get'.resp
          IN IF full.status = "200"
             THEN /\ head.status = "200"
                  /\ head.content_length = full.content_length
                  /\ head.accept_ranges = full.accept_ranges
                  /\ head.cache_control = full.cache_control
                  /\ head.body = <<>>
             ELSE ~path_exists(path_join(UPLOAD_DIR, percent_decode(get'.segment)))
                     => (head.status = "404" /\ full.status = "404")]_vars

-----------------------------------------------------------------------------
(* Whose objects a delete removes.                                         *)

\* the objects of the global collection that belong to an account other
\* than actor
owned_by_another(actor) ==
    {images[i] : i \in {j \in 1..Len(images) :
                           images[j].owner.some /\ images[j].owner.val # actor}}

\* C32: no step of a delete request (by id or by filename) made with the
\* session of an account other than the administrator removes an object
\* that another account owns: it stays in the global collection, in its
\* owner's list, and its file stays on disk.
C32_DeleteSparesObjectsOfOthers ==
    [][\A h \in Handlers :
          (hs'[h] # hs[h] /\ hs'[h].op \in ObjectDeletes
             /\ hs'[h].actor # <<>> /\ hs'[h].actor # ADMIN)
          => /\ \A m \in owned_by_another(hs'[h].actor) :
                   /\ \E i \in 1..Len(images') : images'[i] = m
                   /\ m.filename \in DOMAIN upload_dir => m.filename \in DOMAIN upload_dir'
             /\ Len(users') = Len(users)
             /\ \A k \in 1..Len(users) :
                   users[k].username # hs'[h].actor => users'[k].images = users[k].images]_vars

-----------------------------------------------------------------------------
(* Settings requests that are refused.                                     *)

\* the caller's password hash and the upload token as they were when the
\* request of handler h arrived
settings_before(h) ==
    IF hs[h].pc = "idle"
    THEN [password_hash |->
              IF find_user(users, hs'[h].actor) = 0 THEN <<>>
              ELSE users[find_user(users, hs'[h].actor)].password_hash,
          upload_token_hash |-> upload_token_hash,
          initial_upload_token_plain |-> initial_upload_token_plain]
    ELSE hs[h].before

\* C33: whenever a settings request is answered with an error, the caller's
\* password hash, the upload token hash and the cached plain token are what
\* they were when the request arrived; so a request with a new password and
\* a new upload token applies both or neither.
C33_RefusedSettingsChangeNothing ==
    [][\A h \in Handlers :
          (hs'[h].pc = "done" /\ hs[h].pc # "done" /\ hs'[h].op = "api_settings"
             /\ hs'[h].resp # "200")
          => /\ upload_token_hash' = settings_before(h).upload_token_hash
             /\ initial_upload_token_plain' = settings_before(h).initial_upload_token_plain
             /\ find_user(users', hs'[h].actor) # 0 =>
                   users'[find_user(users', hs'[h].actor)].password_hash
                       = settings_before(h).password_hash]_vars

-----------------------------------------------------------------------------
(* One upload token at a time.                                             *)

\* every token that was ever issued or set, and one that never was
CandidateTokens ==
    {FIRST_UPLOAD_TOKEN, SecondToken, ThirdToken, fresh_token("h1"), fresh_token("h2"),
     "guess"}

\* the tokens the raw upload path accepts
accepted_tokens == {t \in CandidateTokens : verify_upload_token(t)}

\* C34: in every state with no request in flight the raw upload path accepts
\* exactly one token, and the stored hash is the hash of the cached plain
\* token when one is cached.
C34_OneUploadTokenAtATime ==
    (\A h \in Handlers : hs[h].pc = "idle") =>
        /\ Cardinality(accepted_tokens) = 1
        /\ initial_upload_token_plain.some =>
              bcrypt_verify(initial_upload_token_plain.val, upload_token_hash)

-----------------------------------------------------------------------------
(* Registration against the registration lock.                             *)

\* C35: the step of a public registration that inserts the account is taken
\* in a state where registerBlocked is false, and a registration that
\* arrives while registerBlocked is true is answered 403 and leaves the
\* accounts as they are.
C35_NoRegistrationWhileLocked ==
    [][\A h \in Handlers :
          /\ (hs[h].op = "public_register" /\ hs[h].pc = "reg_users" /\ users' # users)
                => ~settings.registerBlocked
          /\ (hs[h].pc = "idle" /\ hs'[h].op = "public_register"
                /\ settings.registerBlocked)
                => (hs'[h].pc = "done" /\ hs'[h].resp = "403" /\ users' = users)]_vars

-----------------------------------------------------------------------------
(* The arithmetic of ranges.                                               *)

\* C36: whenever GET /i/:filename with a Range header that starts with
\* "bytes=" is answered for a file of length L, no subtraction or addition
\* has left the 64-bit range (the handler has not panicked, and no bound has
\* wrapped), and an answer 206 carries Content-Range "bytes s-e/L" with
\* s <= e <= L - 1 and Content-Length e - s + 1, which is at most L.
C36_RangeArithmeticStaysInBounds ==
    [][(/\ get = NoGet /\ get'.method = "GET" /\ get'.range.some
        /\ strip_prefix(get'.range.val, BYTES_EQ).some
        /\ get'.resp.read # <<>>)
       => LET L == file_len(get'.resp.read)
              r == get'.resp
          IN /\ r.status # "panic"
             /\ r.status = "206" =>
                   \E s \in 0..(L - 1), e \in 0..(L - 1) :
                       /\ s <= e
                       /\ r.content_range = content_range(s, e, L)
                       /\ r.content_length = e - s + 1
                       /\ r.content_length <= L]_vars

-----------------------------------------------------------------------------
(* Runs in which no two mutations of one collection overlap and every      *)
(* write succeeds, with restarts of the process between requests.          *)

\* the collections an operation mutates
mutated_by(op) ==
    IF op \in {"api_upload_dashboard", "upload_handler",
               "api_images_delete_by_filename", "api_images_delete_by_id"}
    THEN {"users", "images"}
    ELSE IF op \in {"admin_users_create", "admin_users_delete", "public_register",
                    "api_settings", "api_update_email"}
    THEN {"users"}
    ELSE IF op = "admin_register_set" THEN {"settings"}
    ELSE {}

\* no request in flight mutates a collection op mutates
NoOverlap(op) ==
    \A g \in Handlers :
        hs[g].pc = "idle" \/ mutated_by(hs[g].op) \cap mutated_by(op) = {}

\* the process is stopped between requests and main runs again:
\* ensure_data_and_admin finds the three files and leaves them, load_all
\* parses them into the new AppState; the rate map starts empty and, .env
\* being there, no plaintext token is kept; signed cookies stay valid
\* because SESSION_SECRET is read from .env
Restart ==
    /\ Quiescent
    /\ users' = unwrap_or_default(
                    from_slice(read_or_default(DiskFile("json", users_file))), <<>>)
    /\ images' = unwrap_or_default(
                     from_slice(read_or_default(DiskFile("json", images_file))), <<>>)
    /\ settings' = unwrap_or_default(
                       from_slice(read_or_default(DiskFile("json", settings_file))),
                       DefaultSettings)
    /\ rate' = EmptyMap
    /\ initial_upload_token_plain' = None
    /\ UNCHANGED <<upload_token_hash, users_file, images_file, settings_file,
                   upload_dir, cookies, uuid_next, known, hs, otherVars>>

NextOrdered ==
    \/ \E h \in Handlers : HandlerReturn(h)
    \/ Login(ADMIN, ADMIN_PASSWORD)
    \/ Login(BOB, GoodPassword)
    \/ \E h \in Handlers, c \in CookieChoices :
           NoOverlap("admin_users_create")
               /\ AdminCreate(h, c, BOB, EmailLower, GoodPassword)
    \/ \E h \in Handlers, c \in CookieChoices :
           NoOverlap("admin_users_delete") /\ AdminDelete(h, c, BOB)
    \/ \E h \in Handlers, c \in CookieChoices :
           NoOverlap("api_upload_dashboard") /\ DashStart(h, c, TRUE, 1)
    \/ \E h \in Handlers, n \in 0..1 : DashChunk(h, n, "none")
    \/ \E h \in Handlers : DashUsers(h)
    \/ \E h \in Handlers, e \in {<<>>, EmailLower} :
           NoOverlap("upload_handler")
               /\ RawStart(h, "unknown", FIRST_UPLOAD_TOKEN, e, 1)
    \/ \E h \in Handlers, n \in 0..1 : RawChunk(h, n, "none")
    \/ \E h \in Handlers : FinUsers(h)
    \/ \E h \in Handlers, c \in CookieChoices, id \in Nameable :
           NoOverlap("api_images_delete_by_id") /\ DelIdStart(h, c, id)
    \/ \E h \in Handlers : DelIdRemove(h)
    \/ \E h \in Handlers : DelIdImages(h)
    \/ \E h \in Handlers, c \in CookieChoices, f \in Nameable :
           NoOverlap("api_images_delete_by_filename") /\ DelNameStart(h, c, f)
    \/ \E h \in Handlers : DelNameImages(h)
    \/ \E h \in Handlers : DelNameUsers(h)
    \/ \E h \in Handlers, c \in CookieChoices, b \in BOOLEAN :
           NoOverlap("admin_register_set")
               /\ RegisterSet(h, c, [t |-> "bool", b |-> b, s |-> ""])
    \/ \E h \in Handlers : SaveUsers(h, TRUE)
    \/ \E h \in Handlers : SaveImages(h, TRUE)
    \/ \E h \in Handlers : SaveSettings(h, TRUE)
    \/ Restart

SpecOrdered == Init /\ [][NextOrdered]_vars

\* the collection named c in memory, and the file that stores it
in_memory(c) ==
    IF c = "users" THEN users ELSE IF c = "images" THEN images ELSE settings

on_disk(c) ==
    IF c = "users" THEN users_file
    ELSE IF c = "images" THEN images_file ELSE settings_file

Collections == {"users", "images", "settings"}

\* no request that mutates c is in flight
Settled(c) == \A g \in Handlers : hs[g].pc = "idle" \/ c \notin mutated_by(hs[g].op)

\* C37: in runs where no two mutations of one collection overlap and every
\* write succeeds, when an operation returns, the file of each collection it
\* mutates holds what the collection holds in memory, which is the snapshot
\* the operation took; so whenever no mutation of a collection is in flight
\* its file equals it, and a restart loads the collections it stopped with.
C37_DiskFollowsMemory ==
    /\ [](\A c \in Collections : Settled(c) => on_disk(c) = in_memory(c))
    /\ [][/\ \A h \in Handlers :
                 (hs[h].pc # "done" /\ hs'[h].pc = "done")
                     => \A c \in mutated_by(hs'[h].op) : on_disk(c)' = in_memory(c)'
          /\ \A h \in Handlers :
                 (hs[h].pc \in {"save_users", "save_images", "save_settings"}
                      /\ hs'[h] # hs[h])
                     => \E c \in mutated_by(hs[h].op) : on_disk(c)' = hs[h].snap
          /\ Restart => (users' = users /\ images' = images /\ settings' = settings)]_vars

\* the process was restarted after an upload, the creation of an account
\* and a change of the registration lock, and holds all three
C37_Witness ==
    /\ Quiescent
    /\ initial_upload_token_plain = None
    /\ Len(images) = 1 /\ Len(users) = 2 /\ settings.registerBlocked
    /\ \E i \in 1..Len(users) : Len(users[i].images) = 1
    /\ users_file = users /\ images_file = images /\ settings_file = settings

-----------------------------------------------------------------------------
(* Concurrent deletions by id.                                             *)

DelIdSteps == {"save_users", "dbi_remove", "dbi_images", "save_images"}

\* delete-by-id request h has taken the item out of its caller's list and
\* has not answered yet
removing(h) == hs[h].op = "api_images_delete_by_id" /\ hs[h].pc \in DelIdSteps

\* id is in the owned list of the account named actor in the accounts us
owns_in(us, actor, id) ==
    \E i \in 1..Len(us) :
        us[i].username = actor /\ position_by_id(us[i].images, id) # 0

owns(actor, id) == owns_in(users, actor, id)

\* C38: of two concurrent delete-by-id requests of one account for one id,
\* one goes through and is answered 200 and the other is answered 404; a
\* delete-by-id by a logged-in caller for an id that is not in the caller's
\* owned list is answered 404 at once, changing neither collection and no
\* file, object files included, and writing nothing.
C38_ConcurrentDeleteById ==
    /\ [](\A g, h \in Handlers :
              (g # h /\ removing(g) /\ removing(h)) => hs[g].id # hs[h].id)
    /\ [][\A h \in Handlers :
              /\ (hs[h].pc = "idle" /\ hs'[h].op = "api_images_delete_by_id"
                      /\ hs'[h].pc # "idle" /\ hs'[h].resp # "401")
                     => IF owns(hs'[h].actor, hs'[h].target)
                        THEN /\ hs'[h].pc = "save_users"
                             /\ hs'[h].id = hs'[h].target
                             /\ ~owns_in(users', hs'[h].actor, hs'[h].target)
                             /\ \A g \in Handlers \ {h} :
                                    removing(g) => hs[g].id # hs'[h].target
                        ELSE /\ hs'[h].pc = "done" /\ hs'[h].resp = "404"
                             /\ UNCHANGED <<users, images, users_file, images_file,
                                            settings_file, upload_dir>>
              /\ (removing(h) /\ hs'[h].pc = "done") => hs'[h].resp = "200"
              /\ (removing(h) /\ hs'[h] # hs[h] /\ hs'[h].pc # "done")
                     => (hs'[h].op = hs[h].op /\ hs'[h].pc \in DelIdSteps
                             /\ hs'[h].id = hs[h].id)]_vars

\* one request has taken the item and is about to remove the file while a
\* second request of the same account for the same id is answered 404
C38_Witness ==
    \E g, h \in Handlers :
        /\ g # h
        /\ removing(g) /\ hs[g].pc = "dbi_remove"
        /\ hs[h].op = "api_images_delete_by_id" /\ hs[h].pc = "done"
        /\ hs[h].resp = "404"
        /\ hs[h].actor = hs[g].actor /\ hs[h].target = hs[g].id

-----------------------------------------------------------------------------
(* Rate checks of several clients.                                         *)

\* C39: a check is one step on the bucket of its client: of the checks a
\* client makes with no time elapsed since its bucket was created, at most
\* floor(capacity) are allowed; a check leaves the bucket of every other
\* client as it was; a client's first check starts from a full bucket; and
\* a request with neither x-real-ip nor x-forwarded-for is checked against
\* the bucket of "unknown".
C39_BucketsPerClient ==
    /\ [](\A ip \in DOMAIN rate_log :
              rate_log[ip].still =>
                  rate_log[ip].allowed <= cfg.rate_tokens \div TokenScale)
    /\ [][/\ \A ip \in RateClients :
                 (ip \in DOMAIN rate_log' /\
                  (ip \notin DOMAIN rate_log \/ rate_log'[ip].n # rate_log[ip].n))
                     => /\ \A k \in DOMAIN rate \ {ip} :
                               k \in DOMAIN rate' /\ rate'[k] = rate[k]
                        /\ DOMAIN rate' = DOMAIN rate \cup {ip}
                        /\ ip \notin DOMAIN rate
                               => /\ rate'[ip].last = clock
                                  /\ rate'[ip].tokens =
                                       IF cfg.rate_tokens >= TokenScale
                                       THEN cfg.rate_tokens - TokenScale
                                       ELSE cfg.rate_tokens
                                  /\ rate_log'[ip].allowed =
                                       IF cfg.rate_tokens >= TokenScale THEN 1 ELSE 0
          /\ UploadRateCheck(None, None)
                 => /\ "unknown" \in DOMAIN rate_log'
                    /\ rate_log'["unknown"].n =
                         IF "unknown" \in DOMAIN rate_log
                         THEN rate_log["unknown"].n + 1 ELSE 1
                    /\ DOMAIN rate' = DOMAIN rate \cup {"unknown"}]_vars

\* with a capacity of 2.5 tokens the fallback client made four checks with
\* no time elapsed, two of them allowed, and the other client one
C39_Witness ==
    /\ cfg.rate_tokens = 2 * TokenScale + TokenScale \div 2
    /\ DOMAIN rate_log = RateClients
    /\ rate_log["unknown"].still /\ rate_log["unknown"].n = MaxChecks
    /\ rate_log["unknown"].allowed = 2
    /\ rate_log["10.0.0.1"].n = 1 /\ rate_log["10.0.0.1"].allowed = 1
    /\ rate["10.0.0.1"].tokens = cfg.rate_tokens - TokenScale

-----------------------------------------------------------------------------
(* Deletion URLs.                                                          *)

\* the answer of api_images_delete_by_id to a logged-in caller named actor:
\* the id is looked up in the caller's owned list and nowhere else
delete_by_id_answer(actor, id) ==
    LET k == find_user(users, actor)
    IN IF k = 0 THEN "404"
       ELSE IF position_by_id(users[k].images, id) = 0 THEN "404" ELSE "200"

\* C40: every object that a raw upload stored without a resolved owner and
\* answered with a deletion URL, and that is still in the global
\* collection, can be removed by id by some account: there is an account
\* whose delete-by-id for the object's id is not answered 404.
C40_DeletionUrlWorks ==
    \A i \in 1..Len(images) :
        (images[i].owner = None /\ images[i].filename \in known)
            => \E a \in 1..Len(users) :
                   delete_by_id_answer(users[a].username, images[i].id) # "404"

====
